---- MODULE Spec2Model ----
(***************************************************************************)
(* A model of the retirement Monte Carlo engine (conman124/retirement).    *)
(*                                                                         *)
(* f64 values are modelled as exact rationals [n |-> numerator,            *)
(* d |-> denominator] in lowest terms with d > 0.  The non-finite f64      *)
(* values are kept: d = 0 with n = 0 is NaN, d = 0 with n = 1 / n = -1 is  *)
(* +inf / -inf.  Rounding of finite results is not modelled.               *)
(***************************************************************************)
EXTENDS Integers, Sequences, FiniteSets, TLC

VARIABLES
    account,    \* assets.rs: one Account driven through its public operations
    tax,        \* taxes.rs: one Tax collector (settings, rates, gross_income)
    accounts,   \* withdrawal.rs: the Vec<Account> a WithdrawalStrategy draws on
    run,        \* montecarlo.rs: one Run inside Run::populate
    sim,        \* montecarlo.rs: executions of Simulation::new
    entropy,    \* the host's ambient entropy (clock, OS randomness)
    ledger,     \* what the callers of the last steps have been handed so far
    op          \* the call made by the last step, its arguments and what it returned

vars == <<account, tax, accounts, run, sim, entropy, ledger, op>>

----------------------------------------------------------------------------
(* f64 arithmetic *)

Abs(x) == IF x < 0 THEN -x ELSE x

Sign(x) == IF x < 0 THEN -1 ELSE IF x > 0 THEN 1 ELSE 0

RECURSIVE GCD(_, _)
GCD(a, b) == IF b = 0 THEN a ELSE GCD(b, a % b)

\* The f64 n/d, d # 0, in lowest terms.
Rat(n, d) ==
    LET g == GCD(Abs(n), Abs(d))
        s == IF d < 0 THEN -1 ELSE 1
    IN  [n |-> s * (n \div g), d |-> s * (d \div g)]

F(i) == [n |-> i, d |-> 1]

NaN == [n |-> 0, d |-> 0]

Inf(s) == [n |-> s, d |-> 0]

IsNaN(x) == x.d = 0 /\ x.n = 0

IsInf(x) == x.d = 0 /\ x.n # 0

IsFinite(x) == x.d # 0

\* x + y, x * y and x < y for finite x and y, the common factors of the
\* denominators (g) and across the fractions (g1, g2) taken out first.
AddOver(x, y, g) == Rat(x.n * (y.d \div g) + y.n * (x.d \div g), (x.d \div g) * y.d)

MulOver(x, y, g1, g2) ==
    [n |-> (x.n \div g1) * (y.n \div g2), d |-> (x.d \div g2) * (y.d \div g1)]

LessOver(x, y, g) == x.n * (y.d \div g) < y.n * (x.d \div g)

FNeg(x) == [n |-> -x.n, d |-> x.d]

FAdd(x, y) ==
    IF IsNaN(x) \/ IsNaN(y) THEN NaN
    ELSE IF IsInf(x) /\ IsInf(y) THEN (IF x.n = y.n THEN x ELSE NaN)
    ELSE IF IsInf(x) THEN x
    ELSE IF IsInf(y) THEN y
    ELSE AddOver(x, y, GCD(x.d, y.d))

FSub(x, y) == FAdd(x, FNeg(y))

FMul(x, y) ==
    IF IsNaN(x) \/ IsNaN(y) THEN NaN
    ELSE IF IsInf(x) \/ IsInf(y)
         THEN (IF x.n = 0 \/ y.n = 0 THEN NaN ELSE Inf(Sign(x.n) * Sign(y.n)))
    ELSE MulOver(x, y, GCD(Abs(x.n), y.d), GCD(Abs(y.n), x.d))

FDiv(x, y) ==
    IF IsNaN(x) \/ IsNaN(y) THEN NaN
    ELSE IF IsInf(x) THEN (IF IsInf(y) THEN NaN
                           ELSE Inf(x.n * (IF y.n < 0 THEN -1 ELSE 1)))
    ELSE IF IsInf(y) THEN F(0)
    ELSE IF y.n = 0 THEN (IF x.n = 0 THEN NaN ELSE Inf(Sign(x.n)))
    ELSE FMul(x, Rat(y.d, y.n))

\* x < y, x <= y, x == y, x != y on f64: every comparison with NaN is false but !=.
FLt(x, y) ==
    IF IsNaN(x) \/ IsNaN(y) THEN FALSE
    ELSE IF IsInf(x) \/ IsInf(y)
         THEN (x # y) /\ (x = Inf(-1) \/ y = Inf(1))
    ELSE LessOver(x, y, GCD(x.d, y.d))

FEq(x, y) == ~IsNaN(x) /\ ~IsNaN(y) /\ x = y

FLe(x, y) == FLt(x, y) \/ FEq(x, y)

FNe(x, y) == ~FEq(x, y)

\* f64::min: the other operand when one is NaN.
FMin(x, y) ==
    IF IsNaN(x) THEN y
    ELSE IF IsNaN(y) THEN x
    ELSE IF FLt(y, x) THEN y ELSE x

\* iter().sum() and iter().product(): folds from the left, from 0.0 and 1.0.
RECURSIVE FSumTo(_, _)
FSumTo(s, k) == IF k = 0 THEN F(0) ELSE FAdd(FSumTo(s, k - 1), s[k])

FSum(s) == FSumTo(s, Len(s))

RECURSIVE FProductTo(_, _)
FProductTo(s, k) == IF k = 0 THEN F(1) ELSE FMul(FProductTo(s, k - 1), s[k])

FProduct(s) == FProductTo(s, Len(s))

----------------------------------------------------------------------------
(* montecarlo.rs: Period *)

MonthsPerYear == 12

is_new_year(period) == period % MonthsPerYear = 0

round_down_to_year(period) == period - (period % MonthsPerYear)

----------------------------------------------------------------------------
(* rates.rs: Rate *)

Rate(s, b, i) == [stocks |-> s, bonds |-> b, inflation |-> i]

----------------------------------------------------------------------------
(* assets.rs: AssetAllocation.  Vec index i is Seq index i + 1. *)

\* AssetAllocation::new: [panic, stocks_glide].
AssetAllocation_new(stocks_glide) ==
    [panic |-> \/ ~(Len(stocks_glide) >= 1)
               \/ \E i \in 1..Len(stocks_glide) :
                     ~FLe(F(0), stocks_glide[i]) \/ ~FLe(stocks_glide[i], F(1)),
     stocks_glide |-> stocks_glide]

new_linear_glide_panics(periods_before, start_stocks, periods_glide, end_stocks) ==
    \/ ~(periods_before >= 1)
    \/ ~(periods_glide >= 1)
    \/ ~(FLe(F(0), start_stocks) /\ FLe(start_stocks, F(1)))
    \/ ~(FLe(F(0), end_stocks) /\ FLe(end_stocks, F(1)))

\* The loop of new_linear_glide from index i on.
RECURSIVE GlideLoop(_, _, _, _, _, _)
GlideLoop(stocks_glide, i, periods_before, start_stocks, periods_glide, end_stocks) ==
    IF i >= periods_before + periods_glide THEN stocks_glide
    ELSE GlideLoop(
            [stocks_glide EXCEPT ![i + 1] =
                FAdd(FMul(FDiv(F(i - periods_before + 1), F(periods_glide)),
                          FSub(end_stocks, start_stocks)),
                     start_stocks)],
            i + 1, periods_before, start_stocks, periods_glide, end_stocks)

\* A glide that takes its first step one period late and stops short of the end.
new_linear_glide_starting_late(periods_before, start_stocks, periods_glide, end_stocks) ==
    [i \in 1..(periods_before + periods_glide) |->
        IF i <= periods_before THEN start_stocks
        ELSE FAdd(FMul(FDiv(F(i - periods_before - 1), F(periods_glide)),
                       FSub(end_stocks, start_stocks)),
                  start_stocks)]

\* The vector of a glide whose arguments pass the assertions.
new_linear_glide(periods_before, start_stocks, periods_glide, end_stocks) ==
    GlideLoop([i \in 1..(periods_before + periods_glide) |-> start_stocks],
              periods_before, periods_before, start_stocks, periods_glide, end_stocks)

stocks(stocks_glide, period) ==
    IF period < Len(stocks_glide) THEN stocks_glide[period + 1]
    ELSE stocks_glide[Len(stocks_glide)]

bonds(stocks_glide, period) == FSub(F(1), stocks(stocks_glide, period))

----------------------------------------------------------------------------
(* assets.rs: Account.  Every operation returns [panic, acct, ret]: whether  *)
(* an assertion or an index check failed, the account afterwards, and the    *)
(* returned value.  A panicking call leaves the account as it was.           *)

create_account(starting_balance, allocation, lifespan, rates) ==
    [starting_balance |-> starting_balance,
     balance |-> [i \in 1..lifespan |-> F(0)],
     allocation |-> allocation,
     rates |-> rates]

Panicked(a) == [panic |-> TRUE, acct |-> a, ret |-> F(0)]

Returned(a, r) == [panic |-> FALSE, acct |-> a, ret |-> r]

\* A rebalance that always grows the starting balance, not last period's balance.
rebalance_from_starting_balance(a, period) ==
    IF ~(period < Len(a.balance)) THEN Panicked(a)
    ELSE IF ~FEq(a.balance[period + 1], F(0)) THEN Panicked(a)
    ELSE IF ~(period < Len(a.rates)) THEN Panicked(a)
    ELSE
        LET balance == a.starting_balance
            stocks_new == FMul(FMul(balance, stocks(a.allocation, period)),
                               a.rates[period + 1].stocks)
            bonds_new == FMul(FMul(balance, bonds(a.allocation, period)),
                              a.rates[period + 1].bonds)
        IN  Returned([a EXCEPT !.balance[period + 1] = FAdd(stocks_new, bonds_new)], F(0))

rebalance_and_invest_next_period(a, period) ==
    IF ~(period < Len(a.balance)) THEN Panicked(a)
    ELSE IF ~FEq(a.balance[period + 1], F(0)) THEN Panicked(a)
    ELSE IF ~(period < Len(a.rates)) THEN Panicked(a)
    ELSE
        LET balance == IF period > 0 THEN a.balance[period] ELSE a.starting_balance
            stocks_new == FMul(FMul(balance, stocks(a.allocation, period)),
                               a.rates[period + 1].stocks)
            bonds_new == FMul(FMul(balance, bonds(a.allocation, period)),
                              a.rates[period + 1].bonds)
        IN  Returned([a EXCEPT !.balance[period + 1] = FAdd(stocks_new, bonds_new)], F(0))

\* A withdrawal that has lost its assertion on the amount.
withdraw_unchecked(a, amount, period) ==
    IF ~(period < Len(a.balance)) THEN Panicked(a)
    ELSE Returned([a EXCEPT !.balance[period + 1] = FSub(@, amount)], F(0))

withdraw_from_period(a, amount, period) ==
    IF ~(period < Len(a.balance)) THEN Panicked(a)
    ELSE IF ~FLe(amount, a.balance[period + 1]) THEN Panicked(a)
    ELSE Returned([a EXCEPT !.balance[period + 1] = FSub(@, amount)], F(0))

\* The result w of a call, returning r in place of what it returned.
ReturnUnlessPanicked(w, r) == IF w.panic THEN w ELSE Returned(w.acct, r)

ShortfallAfter(w, amount, period) ==
    IF w.panic THEN w
    ELSE Returned(w.acct, FSub(amount, FMin(amount, w.acct.balance[period + 1])))

\* An attempt that computes the shortfall after the withdrawal has been made.
attempt_withdrawal_shortfall_after(a, amount, period) ==
    IF ~(period < Len(a.balance)) THEN Panicked(a)
    ELSE ShortfallAfter(
            withdraw_from_period(a, FMin(amount, a.balance[period + 1]), period),
            amount, period)

\* An attempt that takes the whole amount, whatever the balance.
attempt_withdrawal_of_whole_amount(a, amount, period) ==
    IF ~(period < Len(a.balance)) THEN Panicked(a)
    ELSE ReturnUnlessPanicked(
            withdraw_unchecked(a, amount, period),
            FSub(amount, FMin(amount, a.balance[period + 1])))

attempt_withdrawal_with_shortfall(a, amount, period) ==
    IF ~(period < Len(a.balance)) THEN Panicked(a)
    ELSE ReturnUnlessPanicked(
            withdraw_from_period(a, FMin(amount, a.balance[period + 1]), period),
            FSub(amount, FMin(amount, a.balance[period + 1])))

deposit(a, amount, period) ==
    IF ~(period < Len(a.balance)) THEN Panicked(a)
    ELSE Returned([a EXCEPT !.balance[period + 1] = FAdd(@, amount)], F(0))

----------------------------------------------------------------------------
(* taxes.rs: Tax.  money is [kind |-> "Taxable" | "NonTaxable", amt |-> f64] *)

Taxable(amt) == [kind |-> "Taxable", amt |-> amt]

NonTaxable(amt) == [kind |-> "NonTaxable", amt |-> amt]

TaxBracket(floor, rate) == [floor |-> floor, rate |-> rate]

TaxSettings_new(brackets, adjust_bracket_floors_for_inflation, deduction, adjust_deduction_for_inflation) ==
    [brackets |-> brackets,
     adjust_bracket_floors_for_inflation |-> adjust_bracket_floors_for_inflation,
     deduction |-> deduction,
     adjust_deduction_for_inflation |-> adjust_deduction_for_inflation]

Tax_new(settings, rates, lifespan) ==
    [settings |-> settings, rates |-> rates, gross_income |-> [i \in 1..lifespan |-> F(0)]]

\* rates[new_year-12..new_year].iter().map(|r| r.inflation()).product()
InflationProduct(rates, from, to) ==
    FProduct([i \in 1..(to - from) |-> rates[from + i].inflation])

\* The inflation multiplier of the year before period's year, 1.0 in the first year.
YearInflation(rates, adjust, period) ==
    IF adjust /\ round_down_to_year(period) > 0
    THEN InflationProduct(rates, round_down_to_year(period) - MonthsPerYear,
                          round_down_to_year(period))
    ELSE F(1)

\* The loop over adjacent brackets, from pair i on, with its break.
RECURSIVE BracketLoop(_, _, _, _, _)
BracketLoop(brackets, bracket_inflation, money, i, taxes) ==
    IF i >= Len(brackets) THEN taxes
    ELSE IF FLt(money, FMul(brackets[i].floor, bracket_inflation)) THEN taxes
    ELSE
        LET ceil == FMin(money, FMul(brackets[i + 1].floor, bracket_inflation))
            in_bracket == FSub(ceil, FMul(brackets[i].floor, bracket_inflation))
        IN  BracketLoop(brackets, bracket_inflation, money, i + 1,
                        FAdd(taxes, FMul(in_bracket, brackets[i].rate)))

\* Panics (slice out of range) when the year before period's year is not in rates.
calculate_tax_amount_panics(t, period) ==
    \/ Len(t.settings.brackets) = 0
    \/ /\ t.settings.adjust_deduction_for_inflation \/ t.settings.adjust_bracket_floors_for_inflation
       /\ round_down_to_year(period) > Len(t.rates)

\* Taxes that leave out the income above the last floor.
BracketTaxesWithoutLast(brackets, bracket_inflation, money) ==
    BracketLoop(brackets, bracket_inflation, money, 1, F(0))

\* The taxes of `money` (the deduction already taken off) over the brackets.
BracketTaxes(brackets, bracket_inflation, money) ==
    LET taxes == BracketLoop(brackets, bracket_inflation, money, 1, F(0))
        last == brackets[Len(brackets)]
    IN  IF FLt(FMul(last.floor, bracket_inflation), money)
        THEN FAdd(taxes, FMul(FSub(money, FMul(last.floor, bracket_inflation)), last.rate))
        ELSE taxes

calculate_tax_amount(t, money_in, period) ==
    BracketTaxes(t.settings.brackets,
        YearInflation(t.rates, t.settings.adjust_bracket_floors_for_inflation, period),
        FSub(money_in, FMul(t.settings.deduction,
              YearInflation(t.rates, t.settings.adjust_deduction_for_inflation, period))))

\* The TaxResult of a Taxable receipt and the collector after it.
TaxResult(t, amt, taxes) ==
    [panic |-> FALSE, tax |-> t, taxes |-> taxes, leftover |-> FSub(amt, taxes)]

\* The Taxable arm, given the year-to-date total before the receipt.
CollectTaxable(t, amt, period, cumulative_annual_gross_income) ==
    TaxResult([t EXCEPT !.gross_income[period + 1] = FAdd(@, amt)], amt,
        FSub(calculate_tax_amount(t, FAdd(cumulative_annual_gross_income, amt), period),
             calculate_tax_amount(t, cumulative_annual_gross_income, period)))

TaxPanicked(t) == [panic |-> TRUE, tax |-> t, taxes |-> F(0), leftover |-> F(0)]

\* A collector that also books NonTaxable receipts as year-to-date gross income.
collect_booking_nontaxable(t, money, period) ==
    IF ~(period < Len(t.gross_income)) \/ calculate_tax_amount_panics(t, period)
    THEN TaxPanicked(t)
    ELSE IF money.kind = "NonTaxable"
    THEN [panic |-> FALSE, tax |-> [t EXCEPT !.gross_income[period + 1] = FAdd(@, money.amt)],
          taxes |-> F(0), leftover |-> money.amt]
    ELSE CollectTaxable(t, money.amt, period,
            FSum(SubSeq(t.gross_income, round_down_to_year(period) + 1, period + 1)))

\* A collector whose year-to-date total never restarts: it sums from period 0.
collect_without_year_restart(t, money, period) ==
    IF money.kind = "NonTaxable"
    THEN [panic |-> FALSE, tax |-> t, taxes |-> F(0), leftover |-> money.amt]
    ELSE IF ~(period < Len(t.gross_income)) \/ calculate_tax_amount_panics(t, period)
    THEN TaxPanicked(t)
    ELSE CollectTaxable(t, money.amt, period, FSum(SubSeq(t.gross_income, 1, period + 1)))

\* Returns [panic, tax, taxes, leftover].  gross_income is read only through
\* the year-to-date total, so calculate_tax_amount sees the same collector
\* before and after the receipt is booked.
collect_income_taxes(t, money, period) ==
    IF money.kind = "NonTaxable"
    THEN [panic |-> FALSE, tax |-> t, taxes |-> F(0), leftover |-> money.amt]
    ELSE IF ~(period < Len(t.gross_income)) \/ calculate_tax_amount_panics(t, period)
    THEN TaxPanicked(t)
    ELSE CollectTaxable(t, money.amt, period,
            FSum(SubSeq(t.gross_income, round_down_to_year(period) + 1, period + 1)))

----------------------------------------------------------------------------
(* withdrawal.rs: WithdrawalStrategy *)

\* A strategy that takes the accounts in order: the first is asked for the
\* draw, the next for what the first cannot give, and so on.
SplitInOrder(monthly_withdrawal, accts, period, total) ==
    [panic |-> FALSE,
     withdrawals_per_account |->
        [i \in 1..Len(accts) |->
            FSub(monthly_withdrawal,
                 FMin(monthly_withdrawal,
                      FSum([j \in 1..(i - 1) |-> accts[j].balance[period + 1]])))],
     period |-> period]

\* A strategy that asks every account for the same share of the draw.
SplitEvenly(monthly_withdrawal, accts, period, total) ==
    [panic |-> FALSE,
     withdrawals_per_account |->
        [i \in 1..Len(accts) |-> FDiv(monthly_withdrawal, F(Len(accts)))],
     period |-> period]

\* The strategy for the accounts' total balance at period.
SplitOver(monthly_withdrawal, accts, period, total) ==
    [panic |-> FALSE,
     withdrawals_per_account |->
        [i \in 1..Len(accts) |->
            FMul(FDiv(accts[i].balance[period + 1], total), monthly_withdrawal)],
     period |-> period]

\* Returns [panic, withdrawals_per_account, period].
WithdrawalStrategy_new(monthly_withdrawal, accts, period) ==
    IF \E i \in 1..Len(accts) : ~(period < Len(accts[i].balance))
    THEN [panic |-> TRUE, withdrawals_per_account |-> <<>>, period |-> period]
    ELSE SplitOver(monthly_withdrawal, accts, period,
                   FSum([i \in 1..Len(accts) |-> accts[i].balance[period + 1]]))

\* The loop of execute from account i on: [panic, accts, shortfall].
RECURSIVE ExecuteLoop(_, _, _, _)
RECURSIVE ExecuteLoopAfter(_, _, _, _, _)
ExecuteLoop(strategy, accts, i, shortfall) ==
    IF i > Len(accts) THEN [panic |-> FALSE, accts |-> accts, shortfall |-> shortfall]
    ELSE IF i > Len(strategy.withdrawals_per_account)
    THEN [panic |-> TRUE, accts |-> accts, shortfall |-> shortfall]
    ELSE ExecuteLoopAfter(strategy, accts, i, shortfall,
            attempt_withdrawal_with_shortfall(
                accts[i], strategy.withdrawals_per_account[i], strategy.period))

\* The loop once account i's attempt has returned r.
ExecuteLoopAfter(strategy, accts, i, shortfall, r) ==
    IF r.panic THEN [panic |-> TRUE, accts |-> accts, shortfall |-> shortfall]
    ELSE ExecuteLoop(strategy, [accts EXCEPT ![i] = r.acct], i + 1, FAdd(shortfall, r.ret))

\* Returns [panic, accts, ok, shortfall]: Ok(()) is ok = TRUE, Err(shortfall) ok = FALSE.
ExecuteResult(r) ==
    [panic |-> r.panic, accts |-> r.accts,
     ok |-> ~r.panic /\ ~FNe(r.shortfall, F(0)),
     shortfall |-> r.shortfall]

WithdrawalStrategy_execute(strategy, accts) ==
    ExecuteResult(ExecuteLoop(strategy, accts, 1, F(0)))

ExecuteUnlessPanicked(strategy, accts) ==
    IF strategy.panic
    THEN [panic |-> TRUE, accts |-> accts, ok |-> FALSE, shortfall |-> F(0)]
    ELSE WithdrawalStrategy_execute(strategy, accts)

\* new followed by execute on the same accounts, as Run::populate uses the strategy.
Withdraw(monthly_withdrawal, accts, period) ==
    ExecuteUnlessPanicked(WithdrawalStrategy_new(monthly_withdrawal, accts, period), accts)

----------------------------------------------------------------------------
(* income.rs: Job *)

Exempt == [kind |-> "Exempt", ss_rate |-> F(0)]

Participant(ss_rate) == [kind |-> "Participant", ss_rate |-> ss_rate]

RaiseSettings(amount, adjust_for_inflation) ==
    [amount |-> amount, adjust_for_inflation |-> adjust_for_inflation]

\* AccountContributionSettings: the AccountSettings fields and the contribution's.
AccountContributionSettings_new(starting_balance, allocation, contribution_pct, contribution_source, taxability) ==
    [starting_balance |-> starting_balance, allocation |-> allocation,
     contribution_pct |-> contribution_pct, contribution_source |-> contribution_source,
     tax |-> taxability]

create_account_contribution(settings, lifespan, rates) ==
    [account |-> create_account(settings.starting_balance, settings.allocation, lifespan, rates),
     contribution_pct |-> settings.contribution_pct,
     contribution_source |-> settings.contribution_source,
     tax |-> settings.tax]

JobSettings_new(starting_gross_income, fica, raise, account_contribution_settings) ==
    [starting_gross_income |-> starting_gross_income, fica |-> fica, raise |-> raise,
     account_contribution_settings |-> account_contribution_settings]

\* Panics when lifespan.periods() != rates.len() (here and in create_account).
create_job_panics(lifespan, rates) == lifespan # Len(rates)

create_job(settings, lifespan, careerspan, rates) ==
    [starting_gross_income |-> settings.starting_gross_income,
     gross_income |-> [i \in 1..careerspan |-> F(0)],
     net_income |-> [i \in 1..careerspan |-> F(0)],
     fica |-> settings.fica,
     raise |-> settings.raise,
     rates |-> rates,
     account_contributions |->
        [i \in 1..Len(settings.account_contribution_settings) |->
            create_account_contribution(settings.account_contribution_settings[i], lifespan, rates)]]

\* The rebalance loop from contribution i on: [panic, acs].
RECURSIVE RebalanceLoop(_, _, _)
RECURSIVE RebalanceLoopAfter(_, _, _, _)
RebalanceLoop(acs, period, i) ==
    IF i > Len(acs) THEN [panic |-> FALSE, acs |-> acs]
    ELSE RebalanceLoopAfter(acs, period, i,
            rebalance_and_invest_next_period(acs[i].account, period))

\* The loop once contribution i's account has been rebalanced with result r.
RebalanceLoopAfter(acs, period, i, r) ==
    IF r.panic THEN [panic |-> TRUE, acs |-> acs]
    ELSE RebalanceLoop([acs EXCEPT ![i].account = r.acct], period, i + 1)

\* A PreTax loop that deposits only what the employee contributes.
RECURSIVE PreTaxLoopEmployeeOnly(_, _, _, _, _)
PreTaxLoopEmployeeOnly(acs, gross, period, i, pretax_contributions) ==
    IF i > Len(acs) THEN [acs |-> acs, pretax_contributions |-> pretax_contributions]
    ELSE IF acs[i].tax = "PreTax" /\ acs[i].contribution_source = "Employee"
    THEN PreTaxLoopEmployeeOnly(
            [acs EXCEPT ![i].account =
                deposit(@, FMul(gross, acs[i].contribution_pct), period).acct],
            gross, period, i + 1,
            FAdd(pretax_contributions, FMul(gross, acs[i].contribution_pct)))
    ELSE PreTaxLoopEmployeeOnly(acs, gross, period, i + 1, pretax_contributions)

\* The PreTax loop from contribution i on: [acs, pretax_contributions].
RECURSIVE PreTaxLoop(_, _, _, _, _)
PreTaxLoop(acs, gross, period, i, pretax_contributions) ==
    IF i > Len(acs) THEN [acs |-> acs, pretax_contributions |-> pretax_contributions]
    ELSE IF acs[i].tax = "PreTax"
    THEN PreTaxLoop(
            [acs EXCEPT ![i].account =
                deposit(@, FMul(gross, acs[i].contribution_pct), period).acct],
            gross, period, i + 1,
            IF acs[i].contribution_source = "Employee"
            THEN FAdd(pretax_contributions, FMul(gross, acs[i].contribution_pct))
            ELSE pretax_contributions)
    ELSE PreTaxLoop(acs, gross, period, i + 1, pretax_contributions)

\* The PostTax loop from contribution i on: [panic, acs, posttax_contributions].
RECURSIVE PostTaxLoop(_, _, _, _, _)
PostTaxLoop(acs, gross, period, i, posttax_contributions) ==
    IF i > Len(acs)
    THEN [panic |-> FALSE, acs |-> acs, posttax_contributions |-> posttax_contributions]
    ELSE IF acs[i].tax = "PostTax"
    THEN IF acs[i].contribution_source # "Employee"
         THEN [panic |-> TRUE, acs |-> acs, posttax_contributions |-> posttax_contributions]
         ELSE PostTaxLoop(
                [acs EXCEPT ![i].account =
                    deposit(@, FMul(gross, acs[i].contribution_pct), period).acct],
                gross, period, i + 1,
                FAdd(posttax_contributions, FMul(gross, acs[i].contribution_pct)))
    ELSE PostTaxLoop(acs, gross, period, i + 1, posttax_contributions)

\* A raise that always takes the inflation of the first year.
GrossForFirstYearInflation(job, period) ==
    IF period = 0 THEN job.starting_gross_income
    ELSE IF ~is_new_year(period) THEN job.gross_income[period]
    ELSE
        LET inflation_adjustment ==
                IF job.raise.adjust_for_inflation
                THEN InflationProduct(job.rates, 0, MonthsPerYear)
                ELSE F(1)
        IN  FMul(FMul(job.gross_income[period], job.raise.amount), inflation_adjustment)

\* The gross income of period (period < gross_income.len()).
GrossFor(job, period) ==
    IF period = 0 THEN job.starting_gross_income
    ELSE IF ~is_new_year(period) THEN job.gross_income[period]
    ELSE
        LET inflation_adjustment ==
                IF job.raise.adjust_for_inflation
                THEN InflationProduct(job.rates, period - MonthsPerYear, period)
                ELSE F(1)
        IN  FMul(FMul(job.gross_income[period], job.raise.amount), inflation_adjustment)

\* A PostTax loop whose assert_eq on the contribution source does not stop the call.
IncomeAfterPostTaxUnchecked(job, period, gross, pre, collected, post) ==
    [panic |-> FALSE,
     job |-> [job EXCEPT
                !.gross_income[period + 1] = gross,
                !.account_contributions = post.acs,
                !.net_income[period + 1] =
                   FSub(FSub(collected.leftover,
                             IF job.fica.kind = "Participant"
                             THEN FMul(gross, job.fica.ss_rate) ELSE F(0)),
                        post.posttax_contributions)],
     tax |-> collected.tax]

\* Line 213, once the PostTax loop has returned post.
IncomeAfterPostTax(job, period, gross, pre, collected, post) ==
    IF post.panic
    THEN [panic |-> TRUE,
          job |-> [job EXCEPT !.gross_income[period + 1] = gross,
                              !.account_contributions = post.acs],
          tax |-> collected.tax]
    ELSE [panic |-> FALSE,
          job |-> [job EXCEPT
                     !.gross_income[period + 1] = gross,
                     !.account_contributions = post.acs,
                     !.net_income[period + 1] =
                        FSub(FSub(collected.leftover,
                                  IF job.fica.kind = "Participant"
                                  THEN FMul(gross, job.fica.ss_rate) ELSE F(0)),
                             post.posttax_contributions)],
          tax |-> collected.tax]

\* Lines 201-213, once the collector has returned collected.
IncomeAfterTax(job, period, gross, pre, collected) ==
    IF collected.panic
    THEN [panic |-> TRUE,
          job |-> [job EXCEPT !.gross_income[period + 1] = gross,
                              !.account_contributions = pre.acs],
          tax |-> collected.tax]
    ELSE IncomeAfterPostTax(job, period, gross, pre, collected,
            PostTaxLoop(pre.acs, gross, period, 1, F(0)))

\* A job that hands the collector the whole gross income.
IncomeAfterPreTaxOnGross(job, period, t, gross, pre) ==
    IncomeAfterTax(job, period, gross, pre,
        collect_income_taxes(t, Taxable(gross), period))

\* Lines 197-213, once the PreTax loop has returned pre.
IncomeAfterPreTax(job, period, t, gross, pre) ==
    IncomeAfterTax(job, period, gross, pre,
        collect_income_taxes(t, Taxable(FSub(gross, pre.pretax_contributions)), period))

\* Lines 180-213, once gross is known; acs are the rebalanced contributions.
IncomeWithGross(job, period, t, acs, gross) ==
    IncomeAfterPreTax(job, period, t, gross, PreTaxLoop(acs, gross, period, 1, F(0)))

\* A job that deposits into the accounts as last period left them.
IncomeWithoutRebalance(job, period, t, rb) ==
    IncomeWithGross(job, period, t, job.account_contributions, GrossFor(job, period))

\* Lines 163-213, once the rebalance loop has returned rb.
IncomeAfterRebalance(job, period, t, rb) ==
    IF rb.panic
    THEN [panic |-> TRUE, job |-> [job EXCEPT !.account_contributions = rb.acs], tax |-> t]
    ELSE IncomeWithGross(job, period, t, rb.acs, GrossFor(job, period))

\* Returns [panic, job, tax]; on a panic, the job and the collector as the
\* unwinding leaves them.
calculate_income_for_period(job, period, t) ==
    IF ~(period < Len(job.net_income)) THEN [panic |-> TRUE, job |-> job, tax |-> t]
    ELSE IncomeAfterRebalance(job, period, t,
            RebalanceLoop(job.account_contributions, period, 1))

Min(a, b) == IF a < b THEN a ELSE b

\* Returns [income, accts].
RetireOver(job, months) ==
    [income |->
        FDiv(FSum(SubSeq(job.net_income, Len(job.net_income) - months + 1,
                         Len(job.net_income))),
             F(months)),
     accts |-> [i \in 1..Len(job.account_contributions) |->
                    job.account_contributions[i].account]]

\* A retirement that averages the whole career.
retire_over_career(job) == RetireOver(job, Len(job.net_income))

retire(job) == RetireOver(job, Min(MonthsPerYear, Len(job.net_income)))

----------------------------------------------------------------------------
(* montecarlo.rs: Run.  A Run inside populate is [rates,                     *)
(* assets_adequate_periods, lifespan, careerspan, retirement_accounts] with  *)
(* populate's locals: current (life_iter), job, tax, income                  *)
(* (pre_retirement_monthly_income), accts (the local retirement_accounts)    *)
(* and pc, the place populate has reached.  log records, in order, the calls *)
(* populate has made: [name, period, ok].                                    *)

Event(name, period, ok) == [name |-> name, period |-> period, ok |-> ok]

\* The Run as Run::execute builds it, about to enter populate(job, tax).
Run_new(rates, lifespan, careerspan, job, t) ==
    [rates |-> rates, assets_adequate_periods |-> 0, lifespan |-> lifespan,
     careerspan |-> careerspan, retirement_accounts |-> <<>>,
     current |-> 0, job |-> job, tax |-> t, income |-> F(0), accts |-> <<>>,
     pc |-> "career", log |-> <<>>]

\* A career loop that has lost its break at retirement.
CareerAfterIncomeWithoutBreak(r, period, c) ==
    IF c.panic
    THEN [r EXCEPT !.current = period + 1, !.job = c.job, !.tax = c.tax,
                   !.pc = "panic",
                   !.log = Append(@, Event("calculate_income_for_period", period, FALSE))]
    ELSE [r EXCEPT !.current = period + 1, !.job = c.job, !.tax = c.tax,
                   !.assets_adequate_periods = @ + 1,
                   !.log = Append(@, Event("calculate_income_for_period", period, TRUE))]

\* Lines 147-152, once calculate_income_for_period(period) has returned c.
CareerAfterIncome(r, period, c) ==
    IF c.panic
    THEN [r EXCEPT !.current = period + 1, !.job = c.job, !.tax = c.tax,
                   !.pc = "panic",
                   !.log = Append(@, Event("calculate_income_for_period", period, FALSE))]
    ELSE [r EXCEPT !.current = period + 1, !.job = c.job, !.tax = c.tax,
                   !.assets_adequate_periods = @ + 1,
                   !.pc = IF period = r.careerspan - 1 THEN "retire" ELSE "career",
                   !.log = Append(@, Event("calculate_income_for_period", period, TRUE))]

\* A career loop that stops one period before the end of the life.
CareerIterationStoppingEarly(r) ==
    IF ~(r.current + 1 < r.lifespan) THEN [r EXCEPT !.pc = "retire"]
    ELSE CareerAfterIncome(r, r.current,
            calculate_income_for_period(r.job, r.current, r.tax))

\* A populate that refuses a career that is not shorter than the life.
CareerIterationCheckingSpans(r) ==
    IF r.careerspan >= r.lifespan THEN [r EXCEPT !.pc = "panic"]
    ELSE IF ~(r.current < r.lifespan) THEN [r EXCEPT !.pc = "retire"]
    ELSE CareerAfterIncome(r, r.current,
            calculate_income_for_period(r.job, r.current, r.tax))

\* One pass of `while let Some(period) = life_iter.next()`.  The subtraction
\* careerspan.periods() - 1 is reached only after calculate_income_for_period
\* returned, which needs period < careerspan.periods(), so it cannot underflow.
CareerIteration(r) ==
    IF ~(r.current < r.lifespan) THEN [r EXCEPT !.pc = "retire"]
    ELSE CareerAfterIncome(r, r.current,
            calculate_income_for_period(r.job, r.current, r.tax))

\* let (pre_retirement_monthly_income, mut retirement_accounts) = job.retire();
Retired(r, x) ==
    [r EXCEPT !.income = x.income, !.accts = x.accts, !.pc = "retirement",
              !.log = Append(@, Event("retire", r.current, TRUE))]

RetireStep(r) == Retired(r, retire(r.job))

\* The rebalance loop of the retirement phase from account i on: [panic, accts].
RECURSIVE RetirementRebalanceLoop(_, _, _)
RECURSIVE RetirementRebalanceLoopAfter(_, _, _, _)
RetirementRebalanceLoop(accts, period, i) ==
    IF i > Len(accts) THEN [panic |-> FALSE, accts |-> accts]
    ELSE RetirementRebalanceLoopAfter(accts, period, i,
            rebalance_and_invest_next_period(accts[i], period))

\* The loop once account i has been rebalanced with result x.
RetirementRebalanceLoopAfter(accts, period, i, x) ==
    IF x.panic THEN [panic |-> TRUE, accts |-> accts]
    ELSE RetirementRebalanceLoop([accts EXCEPT ![i] = x.acct], period, i + 1)

\* A loop that counts the period before it looks at the strategy's verdict.
RetirementCountingFirst(r, period, w) ==
    IF w.panic
    THEN [r EXCEPT !.current = period + 1, !.accts = w.accts, !.pc = "panic",
                   !.log = Append(Append(@, Event("rebalance", period, TRUE)),
                                  Event("withdraw", period, FALSE))]
    ELSE [r EXCEPT !.current = period + 1, !.accts = w.accts,
                   !.assets_adequate_periods = @ + 1,
                   !.pc = IF w.ok THEN "retirement" ELSE "store",
                   !.log = Append(Append(@, Event("rebalance", period, TRUE)),
                                  Event("withdraw", period, w.ok))]

\* A loop that goes on to the next period after a shortfall.
RetirementContinuing(r, period, w) ==
    IF w.panic
    THEN [r EXCEPT !.current = period + 1, !.accts = w.accts, !.pc = "panic",
                   !.log = Append(Append(@, Event("rebalance", period, TRUE)),
                                  Event("withdraw", period, FALSE))]
    ELSE [r EXCEPT !.current = period + 1, !.accts = w.accts,
                   !.assets_adequate_periods = IF w.ok THEN @ + 1 ELSE @,
                   !.log = Append(Append(@, Event("rebalance", period, TRUE)),
                                  Event("withdraw", period, w.ok))]

\* Lines 166-171, once the strategy has returned w.
RetirementAfterWithdrawal(r, period, w) ==
    IF w.panic
    THEN [r EXCEPT !.current = period + 1, !.accts = w.accts, !.pc = "panic",
                   !.log = Append(Append(@, Event("rebalance", period, TRUE)),
                                  Event("withdraw", period, FALSE))]
    ELSE IF w.ok
    THEN [r EXCEPT !.current = period + 1, !.accts = w.accts,
                   !.assets_adequate_periods = @ + 1,
                   !.log = Append(Append(@, Event("rebalance", period, TRUE)),
                                  Event("withdraw", period, TRUE))]
    ELSE [r EXCEPT !.current = period + 1, !.accts = w.accts, !.pc = "store",
                   !.log = Append(Append(@, Event("rebalance", period, TRUE)),
                                  Event("withdraw", period, FALSE))]

\* Lines 166-171, once the rebalance loop has returned rb.
RetirementAfterRebalance(r, period, rb) ==
    IF rb.panic
    THEN [r EXCEPT !.current = period + 1, !.accts = rb.accts, !.pc = "panic",
                   !.log = Append(@, Event("rebalance", period, FALSE))]
    ELSE RetirementAfterWithdrawal(r, period, Withdraw(r.income, rb.accts, period))

\* One pass of `for period in life_iter`.
RetirementIteration(r) ==
    IF ~(r.current < r.lifespan) THEN [r EXCEPT !.pc = "store"]
    ELSE RetirementAfterRebalance(r, r.current,
            RetirementRebalanceLoop(r.accts, r.current, 1))

\* self.retirement_accounts = retirement_accounts;
StoreStep(r) == [r EXCEPT !.retirement_accounts = r.accts, !.pc = "done"]

PopulateStep(r) ==
    CASE r.pc = "career" -> CareerIteration(r)
      [] r.pc = "retire" -> RetireStep(r)
      [] r.pc = "retirement" -> RetirementIteration(r)
      [] r.pc = "store" -> StoreStep(r)
      [] OTHER -> r

\* Run::populate from r to its return or its panic.
RECURSIVE populate(_)
populate(r) == IF r.pc \in {"done", "panic"} THEN r ELSE populate(PopulateStep(r))

----------------------------------------------------------------------------
(* Inputs shared by the specifications.  The values are those of the unit    *)
(* tests where they are small enough (powers of two, "to make the floating   *)
(* point math work out roundly").                                            *)

Half == Rat(1, 2)

Quarter == Rat(1, 4)

Eighth == Rat(1, 8)

\* Monthly (stocks, bonds, inflation) multipliers; a rate vector is the pool
\* read cyclically from an offset.
RatePool == << Rate(F(2), Half, F(1)), Rate(F(1), F(1), F(2)), Rate(Half, F(1), F(1)) >>

RatesFrom(shift, length) ==
    [i \in 1..length |-> RatePool[((i - 1 + shift) % Len(RatePool)) + 1]]

Allocations == { new_linear_glide(1, Rat(3, 4), 2, Quarter), <<F(1)>> }

\* The unused variables of a specification hold this.
Idle == <<>>

Op(name, period, amount, r, pre, count) ==
    [name |-> name, period |-> period, amount |-> amount, panic |-> r.panic,
     ret |-> r.ret, pre |-> pre, count |-> count]

NoOp == [name |-> "none", period |-> 0, amount |-> F(0), panic |-> FALSE,
         ret |-> F(0), pre |-> Idle, count |-> 0]

----------------------------------------------------------------------------
(* SpecAccount: one Account, its operations called in any order with any     *)
(* period (one past the end included) until one panics.                      *)

AcctPeriods == 2

MaxOps == 3

StartingBalances == { F(0), F(1024) }

Amounts == { F(0), F(512), F(1024), F(2048), F(-512) }

DepositAmounts == { F(512) }

AccountInit ==
    /\ account \in { create_account(sb, al, AcctPeriods, RatesFrom(shift, AcctPeriods)) :
                        sb \in StartingBalances, al \in Allocations,
                        shift \in 0..(Len(RatePool) - 1) }
    /\ op = NoOp
    /\ tax = Idle /\ accounts = Idle /\ run = Idle /\ sim = Idle /\ entropy = 0
    /\ ledger = Idle

AccountCanStep == ~op.panic /\ op.count < MaxOps

AccountFrame == UNCHANGED <<tax, accounts, run, sim, entropy, ledger>>

Rebalance ==
    /\ AccountCanStep
    /\ \E t \in 0..AcctPeriods :
        \E r \in { rebalance_and_invest_next_period(account, t) } :
            /\ account' = r.acct
            /\ op' = Op("rebalance_and_invest_next_period", t, F(0), r, account, op.count + 1)
    /\ AccountFrame

Deposit ==
    /\ AccountCanStep
    /\ \E t \in 0..AcctPeriods, amount \in DepositAmounts :
        \E r \in { deposit(account, amount, t) } :
            /\ account' = r.acct
            /\ op' = Op("deposit", t, amount, r, account, op.count + 1)
    /\ AccountFrame

WithdrawFromPeriod ==
    /\ AccountCanStep
    /\ \E t \in 0..AcctPeriods, amount \in Amounts :
        \E r \in { withdraw_from_period(account, amount, t) } :
            /\ account' = r.acct
            /\ op' = Op("withdraw_from_period", t, amount, r, account, op.count + 1)
    /\ AccountFrame

AttemptWithdrawal ==
    /\ AccountCanStep
    /\ \E t \in 0..AcctPeriods, amount \in Amounts :
        \E r \in { attempt_withdrawal_with_shortfall(account, amount, t) } :
            /\ account' = r.acct
            /\ op' = Op("attempt_withdrawal_with_shortfall", t, amount, r, account, op.count + 1)
    /\ AccountFrame

AccountNext == Rebalance \/ Deposit \/ WithdrawFromPeriod \/ AttemptWithdrawal

SpecAccount == AccountInit /\ [][AccountNext]_vars

\* The entries of balance vector b other than period's are those of balance vector c.
OthersUnchanged(b, c, period) ==
    /\ Len(b) = Len(c)
    /\ \A i \in 1..Len(b) : i # period + 1 => b[i] = c[i]

OpInRange == op.period < AcctPeriods

\* C5: for amount >= 0 and balance[t] >= 0, attempt_withdrawal_with_shortfall
\* does not panic, takes min(amount, balance[t]) off balance[t], which stays
\* >= 0, returns amount - min(amount, balance[t]), so that withdrawn + shortfall
\* = amount, and changes no other period's balance.
C5_AttemptWithdrawal ==
    (/\ op.name = "attempt_withdrawal_with_shortfall"
     /\ OpInRange
     /\ FLe(F(0), op.amount)
     /\ FLe(F(0), op.pre.balance[op.period + 1]))
    =>
    LET before == op.pre.balance[op.period + 1]
        after == account.balance[op.period + 1]
        withdrawn == IF FLe(op.amount, before) THEN op.amount ELSE before
    IN  /\ ~op.panic
        /\ after = FSub(before, withdrawn)
        /\ FLe(F(0), after)
        /\ op.ret = FSub(op.amount, withdrawn)
        /\ FAdd(withdrawn, op.ret) = op.amount
        /\ OthersUnchanged(account.balance, op.pre.balance, op.period)

\* An attempt for more than a positive balance has returned the shortfall.
C5_Witness ==
    /\ op.name = "attempt_withdrawal_with_shortfall"
    /\ OpInRange
    /\ ~op.panic
    /\ FLt(F(0), op.pre.balance[op.period + 1])
    /\ FLt(op.pre.balance[op.period + 1], op.amount)
    /\ FLt(F(0), op.ret)

\* C6: withdraw_from_period with amount > balance[t] panics and leaves the
\* balance vector as it was; with amount <= balance[t] it returns, balance[t]
\* is lower by amount and no other entry has changed.
C6_WithdrawFromPeriod ==
    (op.name = "withdraw_from_period" /\ OpInRange)
    =>
    LET before == op.pre.balance[op.period + 1]
    IN  /\ FLt(before, op.amount) => (op.panic /\ account.balance = op.pre.balance)
        /\ FLe(op.amount, before) =>
            /\ ~op.panic
            /\ account.balance[op.period + 1] = FSub(before, op.amount)
            /\ OthersUnchanged(account.balance, op.pre.balance, op.period)

\* A withdrawal of more than a positive balance has panicked.
C6_Witness ==
    /\ op.name = "withdraw_from_period"
    /\ OpInRange
    /\ op.panic
    /\ FLt(F(0), op.pre.balance[op.period + 1])
    /\ FLt(op.pre.balance[op.period + 1], op.amount)

\* The account a with every inflation multiplier of its rates replaced by i.
WithInflation(a, i) ==
    [a EXCEPT !.rates = [k \in 1..Len(a.rates) |-> [a.rates[k] EXCEPT !.inflation = i]]]

\* C7: a rebalance_and_invest_next_period(t) that returns has written
\* balance[t] = B * (stocks(t) * rate[t].stocks + bonds(t) * rate[t].bonds), B the
\* starting balance at t = 0 and balance[t-1] otherwise; no other entry has
\* changed, the balances written are the same under any inflation multipliers,
\* and with rate[t].stocks = rate[t].bonds = 1 the new balance is B.
C7_Rebalance ==
    (op.name = "rebalance_and_invest_next_period" /\ ~op.panic)
    =>
    LET t == op.period
        B == IF t = 0 THEN op.pre.starting_balance ELSE op.pre.balance[t]
        rate == op.pre.rates[t + 1]
        s == stocks(op.pre.allocation, t)
        growth == FAdd(FMul(s, rate.stocks), FMul(FSub(F(1), s), rate.bonds))
    IN  /\ account.balance[t + 1] = FMul(B, growth)
        /\ OthersUnchanged(account.balance, op.pre.balance, t)
        /\ \A i \in {F(1), F(3)} :
              rebalance_and_invest_next_period(WithInflation(op.pre, i), t).acct.balance
                = account.balance
        /\ (rate.stocks = F(1) /\ rate.bonds = F(1)) => account.balance[t + 1] = B

\* A rebalance at period 1 has grown a positive balance[0] that differs from
\* the starting balance.
C7_Witness ==
    /\ op.name = "rebalance_and_invest_next_period"
    /\ ~op.panic
    /\ op.period = 1
    /\ FLt(F(0), op.pre.balance[1])
    /\ op.pre.balance[1] # op.pre.starting_balance
    /\ FLt(F(0), account.balance[2])

----------------------------------------------------------------------------
(* SpecTax: one Tax collector over TaxPeriods months, handed Taxable and     *)
(* NonTaxable receipts at any periods, in any order, until a call panics.    *)
(* ledger keeps what the callers were handed: per calendar year the total of *)
(* the Taxable receipts and of the taxes returned for them, the period of    *)
(* the last Taxable receipt, and whether they came in non-decreasing order.  *)

TaxPeriods == 25

MaxReceipts == 3

TestBrackets == << TaxBracket(F(0), Eighth), TaxBracket(F(8), Quarter), TaxBracket(F(24), Half) >>

TaxSettingsSet ==
    { TaxSettings_new(TestBrackets, FALSE, F(16), FALSE),
      TaxSettings_new(TestBrackets, TRUE, F(16), TRUE),
      TaxSettings_new(TestBrackets, FALSE, F(16), TRUE),
      TaxSettings_new(<<TaxBracket(F(0), Eighth)>>, TRUE, F(0), FALSE) }

\* The first month of each year, the last month of the first year, and one
\* month past the end.
ReceiptPeriods ==
    { t \in 0..TaxPeriods : t % MonthsPerYear = 0 \/ t = MonthsPerYear - 1 \/ t = TaxPeriods }

TaxableMoney == { Taxable(F(8)), Taxable(F(40)) }

ReceiptMoney == TaxableMoney \cup { NonTaxable(F(16)) }

Years == (TaxPeriods + MonthsPerYear - 1) \div MonthsPerYear

YearOf(period) == period \div MonthsPerYear

TaxInit ==
    /\ tax \in { Tax_new(st, RatesFrom(0, TaxPeriods), TaxPeriods) : st \in TaxSettingsSet }
    /\ ledger = [total |-> [y \in 1..Years |-> F(0)], taxes |-> [y \in 1..Years |-> F(0)],
                 last |-> 0, ordered |-> TRUE]
    /\ op = NoOp
    /\ account = Idle /\ accounts = Idle /\ run = Idle /\ sim = Idle /\ entropy = 0

Booked(l, money, period, r) ==
    IF r.panic \/ money.kind # "Taxable" THEN l
    ELSE [total |-> [l.total EXCEPT ![YearOf(period) + 1] = FAdd(@, money.amt)],
          taxes |-> [l.taxes EXCEPT ![YearOf(period) + 1] = FAdd(@, r.taxes)],
          last |-> period,
          ordered |-> l.ordered /\ l.last <= period]

CollectIncomeTaxes ==
    /\ ~op.panic /\ op.count < MaxReceipts
    /\ \E money \in ReceiptMoney, period \in ReceiptPeriods :
        \E r \in { collect_income_taxes(tax, money, period) } :
            /\ tax' = r.tax
            /\ ledger' = Booked(ledger, money, period, r)
            /\ op' = Op("collect_income_taxes", period, money,
                        [panic |-> r.panic, ret |-> [taxes |-> r.taxes, leftover |-> r.leftover]],
                        tax, op.count + 1)
    /\ UNCHANGED <<account, accounts, run, sim, entropy>>

TaxNext == CollectIncomeTaxes

SpecTax == TaxInit /\ [][TaxNext]_vars

\* The two collectors charge the same taxes on any Taxable receipt handed to
\* them next, at period t or later.
SameTaxesFrom(before, after, t) ==
    \A period \in { p \in ReceiptPeriods : t <= p }, money \in TaxableMoney :
        \A a \in { collect_income_taxes(after, money, period) },
           b \in { collect_income_taxes(before, money, period) } : a.taxes = b.taxes

\* C8: a Taxable(a) receipt is split into taxes + leftover = a; a NonTaxable(a)
\* receipt returns taxes = 0 and leftover = a and leaves gross_income as it was,
\* so the taxes of any Taxable receipt collected next are what they would have
\* been without it.
C8_TaxConservation ==
    (op.name = "collect_income_taxes" /\ ~op.panic)
    =>
    /\ op.amount.kind = "Taxable" => FAdd(op.ret.taxes, op.ret.leftover) = op.amount.amt
    /\ op.amount.kind = "NonTaxable" =>
        /\ op.ret.taxes = F(0)
        /\ op.ret.leftover = op.amount.amt
        /\ tax.gross_income = op.pre.gross_income
        /\ SameTaxesFrom(op.pre, tax, op.period)

\* A NonTaxable receipt has been collected in a year whose Taxable receipts
\* have already been taxed.
C8_Witness ==
    /\ op.name = "collect_income_taxes"
    /\ ~op.panic
    /\ op.amount.kind = "NonTaxable"
    /\ FLt(F(0), ledger.taxes[YearOf(op.period) + 1])

\* C9: when the Taxable receipts came in non-decreasing period order, the taxes
\* returned for the receipts of each calendar year add up to
\* calculate_tax_amount(total of that year's receipts, last period of the year).
C9_YearConservation ==
    (tax # Idle /\ ledger.ordered)
    =>
    \A y \in 1..Years :
        ledger.taxes[y] = calculate_tax_amount(tax, ledger.total[y], MonthsPerYear * y - 1)

\* Taxed receipts in two different years, the later year's taxes not those of
\* the two years' receipts together.
C9_Witness ==
    /\ tax # Idle
    /\ ledger.ordered
    /\ \E y, z \in 1..Years :
        /\ y < z
        /\ FLt(F(0), ledger.taxes[y])
        /\ FLt(F(0), ledger.taxes[z])
        /\ ledger.taxes[z] #
             calculate_tax_amount(tax, FAdd(ledger.total[y], ledger.total[z]), MonthsPerYear * z - 1)

----------------------------------------------------------------------------
(* SpecWithdrawal: a list of accounts over the same rates, each rebalanced   *)
(* into a period in any order, and draws made from the whole list through    *)
(* the withdrawal strategy (new, then execute) until a call panics.          *)

WdPeriods == 2

MaxWdOps == 3

WdStartingBalances == { F(0), F(512), F(1536), F(-512) }

Draws == { F(0), F(512), F(1024), F(4096), F(-512) }

AccountLists ==
    { <<>> } \cup { <<a>> : a \in WdStartingBalances }
             \cup { <<a, b>> : a, b \in WdStartingBalances }

WithdrawalInit ==
    /\ accounts \in { [i \in 1..Len(sbs) |->
                          create_account(sbs[i], <<F(1)>>, WdPeriods, RatesFrom(shift, WdPeriods))] :
                      sbs \in AccountLists, shift \in {0, 2} }
    /\ op = NoOp
    /\ account = Idle /\ tax = Idle /\ run = Idle /\ sim = Idle /\ entropy = 0
    /\ ledger = Idle

WithdrawalCanStep == ~op.panic /\ op.count < MaxWdOps

WithdrawalFrame == UNCHANGED <<account, tax, run, sim, entropy, ledger>>

RebalanceAccount ==
    /\ WithdrawalCanStep
    /\ \E i \in 1..Len(accounts), t \in 0..(WdPeriods - 1) :
        \E r \in { rebalance_and_invest_next_period(accounts[i], t) } :
            /\ accounts' = [accounts EXCEPT ![i] = r.acct]
            /\ op' = Op("rebalance_and_invest_next_period", t, F(0), r, accounts, op.count + 1)
    /\ WithdrawalFrame

ExecuteStrategy ==
    /\ WithdrawalCanStep
    /\ \E w \in Draws, t \in 0..WdPeriods :
        \E strategy \in { WithdrawalStrategy_new(w, accounts, t) } :
            \E r \in { ExecuteUnlessPanicked(strategy, accounts) } :
                /\ accounts' = r.accts
                /\ op' = Op("WithdrawalStrategy", t, w,
                            [panic |-> r.panic,
                             ret |-> [ok |-> r.ok, shortfall |-> r.shortfall,
                                      asked |-> strategy.withdrawals_per_account]],
                            accounts, op.count + 1)
    /\ WithdrawalFrame

WithdrawalNext == RebalanceAccount \/ ExecuteStrategy

SpecWithdrawal == WithdrawalInit /\ [][WithdrawalNext]_vars

BalancesAt(accts, t) == [i \in 1..Len(accts) |-> accts[i].balance[t + 1]]

\* What C10 promises of a draw of w at period t from accounts whose balances
\* were B and total S: the amounts asked, the verdict, the balances after.
ProportionalDraw(w, t, B, S) ==
    /\ ~op.panic
    /\ \A i \in 1..Len(B) : op.ret.asked[i] = FDiv(FMul(w, B[i]), S)
    /\ op.ret.ok <=> FLe(w, S)
    /\ op.ret.ok =>
        /\ \A i \in 1..Len(B) :
              accounts[i].balance[t + 1] = FSub(B[i], FMul(B[i], FDiv(w, S)))
        /\ FSum([i \in 1..Len(B) |-> FSub(B[i], accounts[i].balance[t + 1])]) = w
    /\ ~op.ret.ok => op.ret.shortfall = FSub(w, S)

DrawFrom(B) ==
    /\ FLt(F(0), FSum(B))
    /\ FLe(F(0), op.amount)

\* C10 as stated: for accounts with total balance S > 0 at period t and a draw
\* w >= 0 the strategy asks account i for w*B_i/S and succeeds iff w <= S,
\* every account then reduced by the fraction w/S of its balance and w
\* withdrawn in total; otherwise it fails with the shortfall w - S.
C10_AnyBalances ==
    (op.name = "WithdrawalStrategy" /\ op.period < WdPeriods
        /\ DrawFrom(BalancesAt(op.pre, op.period)))
    =>
    ProportionalDraw(op.amount, op.period, BalancesAt(op.pre, op.period),
                     FSum(BalancesAt(op.pre, op.period)))

\* C10, amended: the same for accounts whose balances at t are all finite and
\* none of them negative.
C10_ProportionalDraw ==
    (op.name = "WithdrawalStrategy" /\ op.period < WdPeriods
        /\ DrawFrom(BalancesAt(op.pre, op.period))
        /\ \A i \in 1..Len(op.pre) :
              /\ IsFinite(op.pre[i].balance[op.period + 1])
              /\ FLe(F(0), op.pre[i].balance[op.period + 1]))
    =>
    ProportionalDraw(op.amount, op.period, BalancesAt(op.pre, op.period),
                     FSum(BalancesAt(op.pre, op.period)))

\* A successful draw of part of the total from two accounts with different
\* positive balances.
C10_Witness ==
    /\ op.name = "WithdrawalStrategy"
    /\ ~op.panic
    /\ op.ret.ok
    /\ Len(op.pre) = 2
    /\ FLt(F(0), op.pre[1].balance[op.period + 1])
    /\ FLt(op.pre[1].balance[op.period + 1], op.pre[2].balance[op.period + 1])
    /\ FLt(F(0), op.amount)
    /\ FLt(op.amount, FSum(BalancesAt(op.pre, op.period)))

\* C11: when the accounts' total balance at period t is 0 (an empty list
\* included) a draw of w > 0 returns a failure whose shortfall is w.
C11_ZeroTotalFullShortfall ==
    (op.name = "WithdrawalStrategy" /\ op.period < WdPeriods
        /\ FEq(FSum(BalancesAt(op.pre, op.period)), F(0))
        /\ FLt(F(0), op.amount))
    =>
    (~op.panic /\ ~op.ret.ok /\ FEq(op.ret.shortfall, op.amount))

----------------------------------------------------------------------------
(* SpecRun: Run::populate, one loop pass or statement at a time, for every   *)
(* lifespan and career length up to the bounds (career longer than the life, *)
(* and no career, included) and a choice of job and tax settings.            *)

MaxLifespan == 4

MaxCareer == 3

RunGrossIncome == 16

Contribution(starting_balance, allocation, pct, source, taxability) ==
    AccountContributionSettings_new(starting_balance, allocation, pct, source, taxability)

\* No account; one that lasts; one that runs out; an empty one; one on a
\* glide path; two accounts, one of them the employer's; a contribution that
\* is not permitted.
ContributionLists ==
    { <<>>,
      << Contribution(F(256), <<F(1)>>, Eighth, "Employee", "PreTax") >>,
      << Contribution(F(16), <<F(1)>>, Eighth, "Employee", "PostTax") >>,
      << Contribution(F(0), <<F(1)>>, F(0), "Employee", "PreTax") >>,
      << Contribution(F(64), new_linear_glide(1, Rat(3, 4), 2, Quarter), F(0), "Employee", "PreTax") >>,
      << Contribution(F(8), <<F(1)>>, Quarter, "Employee", "PostTax"),
         Contribution(F(0), <<F(1)>>, Eighth, "Employer", "PreTax") >>,
      << Contribution(F(16), <<F(1)>>, Eighth, "Employer", "PostTax") >> }

RunJobSettings ==
    { JobSettings_new(F(RunGrossIncome), fica, RaiseSettings(F(1), FALSE), acs) :
        fica \in { Exempt, Participant(Eighth) }, acs \in ContributionLists }

RunTaxSettings ==
    { TaxSettings_new(<<TaxBracket(F(0), Eighth)>>, TRUE, F(0), FALSE),
      TaxSettings_new(TestBrackets, FALSE, F(8), FALSE) }

\* Run::execute from the sampled lifespan and rates on.
RunFor(rates, lifespan, careerspan, job_settings, tax_settings) ==
    Run_new(rates, lifespan, careerspan,
            create_job(job_settings, lifespan, careerspan, rates),
            Tax_new(tax_settings, rates, lifespan))

RunInit ==
    /\ run \in { RunFor(RatesFrom(shift, lifespan), lifespan, careerspan, js, ts) :
                    lifespan \in 0..MaxLifespan, careerspan \in 0..MaxCareer,
                    shift \in 0..(Len(RatePool) - 1),
                    js \in RunJobSettings, ts \in RunTaxSettings }
    /\ op = NoOp
    /\ account = Idle /\ tax = Idle /\ accounts = Idle /\ sim = Idle /\ entropy = 0
    /\ ledger = Idle

RunFrame == UNCHANGED <<account, tax, accounts, sim, entropy, ledger, op>>

CareerPass ==
    /\ run.pc = "career"
    /\ run' = CareerIteration(run)
    /\ RunFrame

Retire ==
    /\ run.pc = "retire"
    /\ run' = RetireStep(run)
    /\ RunFrame

RetirementPass ==
    /\ run.pc = "retirement"
    /\ run' = RetirementIteration(run)
    /\ RunFrame

Store ==
    /\ run.pc = "store"
    /\ run' = StoreStep(run)
    /\ RunFrame

RunNext == CareerPass \/ Retire \/ RetirementPass \/ Store

SpecRun == RunInit /\ [][RunNext]_vars

\* The places of the log where the strategy reported a shortfall.
Shortfalls(r) ==
    { k \in 1..Len(r.log) : r.log[k].name = "withdraw" /\ ~r.log[k].ok }

BalancesZeroAfter(accts, t, lifespan) ==
    \A i \in 1..Len(accts) : \A p \in (t + 1)..(lifespan - 1) : accts[i].balance[p + 1] = F(0)

\* C1: when populate has finished, assets_adequate_periods <= lifespan.periods,
\* and the two are equal iff the strategy reported no shortfall at any
\* retirement period of the run.
C1_AdequateIffNoShortfall ==
    (run # Idle /\ run.pc = "done")
    =>
    /\ run.assets_adequate_periods <= run.lifespan
    /\ run.assets_adequate_periods = run.lifespan <=> Shortfalls(run) = {}

\* populate has finished a run whose assets were adequate for some retirement
\* periods and then fell short before the end of the life.
C1_Witness ==
    /\ run # Idle
    /\ run.pc = "done"
    /\ Shortfalls(run) # {}
    /\ \E k \in 1..Len(run.log) : run.log[k].name = "withdraw" /\ run.log[k].ok
    /\ run.assets_adequate_periods < run.lifespan

\* C2: once the strategy has reported a shortfall at period t, populate is at
\* its last statement or has returned (no panic), assets_adequate_periods is t,
\* the shortfall is the last call of the log (no rebalance and no withdrawal at
\* a later period), and every retirement account's balance at the periods
\* t+1 .. lifespan.periods-1 is 0.
C2_ShortfallStopsLoop ==
    run # Idle
    =>
    \A k \in Shortfalls(run) :
        /\ run.pc \in {"store", "done"}
        /\ run.assets_adequate_periods = run.log[k].period
        /\ k = Len(run.log)
        /\ BalancesZeroAfter(run.accts, run.log[k].period, run.lifespan)
        /\ run.pc = "done" =>
              /\ Len(run.retirement_accounts) = Len(run.accts)
              /\ BalancesZeroAfter(run.retirement_accounts, run.log[k].period, run.lifespan)

\* populate has returned after a shortfall that left at least two periods of
\* the life, with an account that held money.
C2_Witness ==
    /\ run # Idle
    /\ run.pc = "done"
    /\ \E k \in Shortfalls(run) :
        /\ run.log[k].period + 2 < run.lifespan
        /\ \E i \in 1..Len(run.retirement_accounts) :
              FLt(F(0), run.retirement_accounts[i].balance[run.log[k].period])

----------------------------------------------------------------------------
(* The generator T of Run::execute and Simulation::new.  T is a type         *)
(* parameter (SeedableRng + Rng); it is instantiated here with a congruential*)
(* generator over U64Values values, the u64 of the model.                    *)

U64Values == 64

\* A generator that takes its seed from the environment as well.
seed_from_entropy(seed) == [state |-> (seed * 13 + 7 + entropy) % U64Values]

seed_from_u64(seed) == [state |-> (seed * 13 + 7) % U64Values]

NextWith(state) == [rng |-> [state |-> state], value |-> state]

\* rng.gen::<u64>(): [rng, value].
next_u64(rng) == NextWith((rng.state * 5 + 3) % U64Values)

\* A draw compared with the probability the wrong way round.
BoolOfInverted(n, p) ==
    [panic |-> FALSE, rng |-> n.rng, value |-> FLt(FMul(p, F(U64Values)), F(n.value))]

BoolOf(n, p) ==
    [panic |-> FALSE, rng |-> n.rng, value |-> FLt(F(n.value), FMul(p, F(U64Values)))]

\* rng.gen_bool(p): [panic, rng, value].  p outside [0, 1] panics; p = 1 is
\* true without a draw.
gen_bool(rng, p) ==
    IF ~(FLe(F(0), p) /\ FLe(p, F(1))) THEN [panic |-> TRUE, rng |-> rng, value |-> FALSE]
    ELSE IF p = F(1) THEN [panic |-> FALSE, rng |-> rng, value |-> TRUE]
    ELSE BoolOf(next_u64(rng), p)

UniformOf(n, high) == [rng |-> n.rng, value |-> (n.value * high) \div U64Values]

\* Uniform::new(0, high).sample(rng), 0 < high: [rng, value].
sample_uniform(rng, high) == UniformOf(next_u64(rng), high)

----------------------------------------------------------------------------
(* person.rs: PersonSettings, life_expectancy *)

RECURSIVE FPow(_, _)
FPow(x, k) == IF k = 0 THEN F(1) ELSE FMul(FPow(x, k - 1), x)

\* The monthly probabilities the tables of the model lead to.
TwelfthRoots == { F(0), Quarter, Half, Rat(3, 4), F(1) }

\* x.powf(1.0/12.0), for x the twelfth power of one of TwelfthRoots.
Root12(x) == CHOOSE r \in TwelfthRoots : FPow(r, MonthsPerYear) = x

PersonSettings_new(name, age_years, age_months, annual_death_rates) ==
    [name |-> name, age_years |-> age_years, age_months |-> age_months,
     annual_death_rates |-> annual_death_rates]

convert_annual_death_to_monthly_life_panics(rates, offset) ==
    ~(Len(rates) >= 1) \/ ~(offset < MonthsPerYear)

Repeated(count, x) == [i \in 1..count |-> x]

\* count pushes of (1.0 - prob).powf(1.0/12.0).
Pushed(count, prob) == Repeated(count, Root12(FSub(F(1), prob)))

\* The outer loop of the conversion from year pos (0-based) on.
RECURSIVE ConvertLoop(_, _, _, _)
ConvertLoop(rates, offset, pos, ret) ==
    IF pos >= Len(rates) THEN ret
    ELSE ConvertLoop(rates, offset, pos + 1,
            ret \o Pushed(IF pos = 0 THEN MonthsPerYear - offset ELSE MonthsPerYear,
                          rates[pos + 1]))

\* A conversion that gives the first year its twelve months whatever the offset.
convert_annual_death_ignoring_offset(rates, offset) ==
    ConvertLoop(rates, 0, 0, <<>>)

\* Year pos of the table fills 12 months, the first year 12 - offset.
convert_annual_death_to_monthly_life(rates, offset) ==
    ConvertLoop(rates, offset, 0, <<>>)

\* The loop of calculate_periods from month i on: [panic, rng, lifespan].
RECURSIVE LifeLoop(_, _, _)
RECURSIVE LifeLoopAfter(_, _, _)
LifeLoop(rng, life_rates, i) ==
    LifeLoopAfter(life_rates, i, gen_bool(rng, life_rates[Min(i, Len(life_rates) - 1) + 1]))

LifeLoopAfter(life_rates, i, lived) ==
    IF lived.panic THEN [panic |-> TRUE, rng |-> lived.rng, lifespan |-> i]
    ELSE IF ~lived.value THEN [panic |-> FALSE, rng |-> lived.rng, lifespan |-> i]
    ELSE LifeLoop(lived.rng, life_rates, i + 1)

calculate_periods(rng, annual_death, offset) ==
    IF convert_annual_death_to_monthly_life_panics(annual_death, offset)
    THEN [panic |-> TRUE, rng |-> rng, lifespan |-> 0]
    ELSE LifeLoop(rng, convert_annual_death_to_monthly_life(annual_death, offset), 0)

\* Returns [panic, rng, lifespan]; the slice annual_death_rates[age_years..]
\* panics when age_years is past the end of the table.
create_person(settings, rng) ==
    IF settings.age_years > Len(settings.annual_death_rates)
    THEN [panic |-> TRUE, rng |-> rng, lifespan |-> 0]
    ELSE calculate_periods(rng,
            SubSeq(settings.annual_death_rates, settings.age_years + 1,
                   Len(settings.annual_death_rates)),
            settings.age_months)

----------------------------------------------------------------------------
(* rates.rs: generate_rates *)

\* A sampler that takes a whole block at the start of the pool as well.
BlockAtWholeBlocks(rates_in, sublength, num) ==
    IF num < sublength - 1 THEN SubSeq(rates_in, 1, sublength)
    ELSE IF num >= Len(rates_in) THEN SubSeq(rates_in, num - sublength + 2, Len(rates_in))
    ELSE SubSeq(rates_in, num + 2 - sublength, num + 1)

\* The block of rates_in that the sampled num stands for.
BlockAt(rates_in, sublength, num) ==
    IF num < sublength - 1 THEN SubSeq(rates_in, 1, num + 1)
    ELSE IF num >= Len(rates_in) THEN SubSeq(rates_in, num - sublength + 2, Len(rates_in))
    ELSE SubSeq(rates_in, num + 2 - sublength, num + 1)

\* The loop of generate_rates_with_distribution: [panic, rates].
RECURSIVE GenerateLoop(_, _, _, _, _, _)
RECURSIVE GenerateLoopWith(_, _, _, _, _, _)
RECURSIVE GenerateLoopBlock(_, _, _, _, _, _, _)
RECURSIVE GenerateLoopAfter(_, _, _, _, _, _)
GenerateLoop(rng, rates_in, sublength, length, high, rates) ==
    GenerateLoopWith(rates_in, sublength, length, high, rates, sample_uniform(rng, high))

\* The loop once num has been sampled.
GenerateLoopWith(rates_in, sublength, length, high, rates, num) ==
    GenerateLoopBlock(num.rng, rates_in, sublength, length, high, rates,
                      BlockAt(rates_in, sublength, num.value))

\* The loop once the block has been sliced: it is cut to what is still missing.
GenerateLoopBlock(rng, rates_in, sublength, length, high, rates, slice) ==
    GenerateLoopAfter(rng, rates_in, sublength, length, high,
        rates \o SubSeq(slice, 1, Min(Len(slice), length - Len(rates))))

\* The loop once the block has been appended.
GenerateLoopAfter(rng, rates_in, sublength, length, high, rates) ==
    IF Len(rates) = length THEN [panic |-> FALSE, rates |-> rates]
    ELSE GenerateLoop(rng, rates_in, sublength, length, high, rates)

\* A generator that returns no rates for a bad block length or pool.
generate_rates_without_asserts(rng, rates_in, sublength, length, high) ==
    IF ~(sublength <= Len(rates_in)) \/ sublength = 0 \/ Len(rates_in) = 0
    THEN [panic |-> FALSE, rates |-> <<>>]
    ELSE GenerateLoop(rng, rates_in, sublength, length, high, <<>>)

generate_rates_with_distribution(rng, rates_in, sublength, length, high) ==
    IF ~(sublength <= Len(rates_in)) \/ sublength = 0 \/ Len(rates_in) = 0
    THEN [panic |-> TRUE, rates |-> <<>>]
    ELSE GenerateLoop(rng, rates_in, sublength, length, high, <<>>)

\* Uniform::new(0, high) panics unless 0 < high.
generate_rates(rng, rates_in, sublength, length) ==
    IF Len(rates_in) + sublength - 1 <= 0 THEN [panic |-> TRUE, rates |-> <<>>]
    ELSE generate_rates_with_distribution(rng, rates_in, sublength, length,
                                          Len(rates_in) + sublength - 1)

----------------------------------------------------------------------------
(* montecarlo.rs: Run::execute, Simulation *)

\* The Run struct that populate leaves: [panic, run].
RunResult(r) ==
    [panic |-> r.pc = "panic",
     run |-> [rates |-> r.rates, assets_adequate_periods |-> r.assets_adequate_periods,
              lifespan |-> r.lifespan, careerspan |-> r.careerspan,
              retirement_accounts |-> r.retirement_accounts]]

RunPanicked ==
    [panic |-> TRUE,
     run |-> [rates |-> <<>>, assets_adequate_periods |-> 0, lifespan |-> 0,
              careerspan |-> 0, retirement_accounts |-> <<>>]]

\* Lines 124-137, once generate_rates has returned g.
ExecuteWithRates(lifespan, job_settings, career_periods, tax_settings, g) ==
    IF g.panic THEN RunPanicked
    ELSE RunResult(populate(RunFor(g.rates, lifespan, career_periods, job_settings, tax_settings)))

\* Lines 123-137, once rng.gen() has returned n.
ExecuteWithSeed(rates_source, sublength, job_settings, career_periods, tax_settings, lifespan, n) ==
    ExecuteWithRates(lifespan, job_settings, career_periods, tax_settings,
        generate_rates(seed_from_u64(n.value), rates_source, sublength, lifespan))

\* Lines 121-137, once create_person has returned person.
ExecuteWithPerson(rates_source, sublength, job_settings, career_periods, tax_settings, person) ==
    IF person.panic THEN RunPanicked
    ELSE ExecuteWithSeed(rates_source, sublength, job_settings, career_periods, tax_settings,
                         person.lifespan, next_u64(person.rng))

\* Returns [panic, run].
Run_execute(seed, rates_source, sublength, job_settings, person_settings, career_periods, tax_settings) ==
    ExecuteWithPerson(rates_source, sublength, job_settings, career_periods, tax_settings,
                      create_person(person_settings, seed_from_u64(seed)))

\* x as the integer type holds it: an overflow panics in a build with overflow
\* checks and wraps in one without.  Returns [panic, value].
Checked(x, overflow_checks) ==
    IF x < U64Values THEN [panic |-> FALSE, value |-> x]
    ELSE IF overflow_checks THEN [panic |-> TRUE, value |-> 0]
    ELSE [panic |-> FALSE, value |-> x % U64Values]

SeedSum(product, seed2, overflow_checks) ==
    IF product.panic THEN product ELSE Checked(product.value + seed2, overflow_checks)

\* (seed as usize * count) as u64 + (seed2 as u64), usize as wide as u64.
new_seed(seed, count, seed2, overflow_checks) ==
    SeedSum(Checked(seed * count, overflow_checks), seed2, overflow_checks)

ExecuteWithNewSeed(args, s) ==
    IF s.panic THEN RunPanicked
    ELSE Run_execute(s.value, args.rates_source, args.sublength, args.job_settings,
                     args.person_settings, args.career_periods, args.tax_settings)

\* The closure of Simulation::new for seed2: [panic, run].
SimulationRun(args, seed2) ==
    ExecuteWithNewSeed(args, new_seed(args.seed, args.count, seed2, args.overflow_checks))

RECURSIVE CountAdequate(_, _)
CountAdequate(runs, k) ==
    IF k = 0 THEN 0
    ELSE CountAdequate(runs, k - 1)
         + (IF runs[k].assets_adequate_periods > runs[k].lifespan THEN 1 ELSE 0)

\* A rate that counts only the runs that outlast the lifespan.
success_rate_strict(simulation) ==
    [num |-> CountAdequate(simulation.runs, Len(simulation.runs)),
     denom |-> Len(simulation.runs)]

success_rate(simulation) ==
    [num |-> Cardinality({ k \in 1..Len(simulation.runs) :
                            simulation.runs[k].assets_adequate_periods
                                >= simulation.runs[k].lifespan }),
     denom |-> Len(simulation.runs)]

----------------------------------------------------------------------------
(* SpecSim: Simulation::new called twice with the same arguments, call B     *)
(* after call A has returned or panicked, each advancing one run at a time   *)
(* while the environment (entropy) changes, and success_rate called on what  *)
(* each returned.  at records the entropy when each run was executed.        *)

MaxCount == 2

\* The last one overflows the seed of a run; the others lead to runs of
\* different lifespans.
Seeds == { 13, 15, U64Values - 1 }

DeathRates == << Rat(4095, 4096), F(1) >>

\* The last one is older than the table is long.
SimPersonSettings ==
    { PersonSettings_new("p", 0, 8, DeathRates), PersonSettings_new("p", 3, 8, DeathRates) }

SimJobSettings ==
    { JobSettings_new(F(RunGrossIncome), Participant(Eighth), RaiseSettings(F(1), FALSE), acs) :
        acs \in { << Contribution(F(256), <<F(1)>>, Eighth, "Employee", "PreTax") >>,
                  << Contribution(F(16), <<F(1)>>, Eighth, "Employee", "PostTax") >> } }

SimArgs ==
    [seed : Seeds, count : 0..MaxCount, overflow_checks : BOOLEAN,
     rates_source : { RatePool }, sublength : { 2 },
     job_settings : SimJobSettings, person_settings : SimPersonSettings,
     career_periods : 0..2,
     tax_settings : { TaxSettings_new(<<TaxBracket(F(0), Eighth)>>, TRUE, F(0), FALSE) }]

Mapping == [runs |-> <<>>, at |-> <<>>, pc |-> "mapping"]

SimInit ==
    /\ sim \in { [args |-> args, A |-> Mapping, B |-> Mapping] : args \in SimArgs }
    /\ entropy = 0
    /\ op = NoOp
    /\ account = Idle /\ tax = Idle /\ accounts = Idle /\ run = Idle /\ ledger = Idle

SimFrame == UNCHANGED <<account, tax, accounts, run, ledger>>

Calls == { "A", "B" }

\* Call c is the one in progress.
Called(c) == sim[c].pc = "mapping" /\ (c = "B" => sim.A.pc # "mapping")

Mapped(c, r) ==
    IF r.panic THEN [c EXCEPT !.pc = "panic"]
    ELSE [c EXCEPT !.runs = Append(@, r.run), !.at = Append(@, entropy)]

\* One call of the closure by the map of Simulation::new.
ExecuteRun ==
    /\ \E c \in Calls :
        /\ Called(c)
        /\ Len(sim[c].runs) < sim.args.count
        /\ sim' = [sim EXCEPT ![c] = Mapped(@, SimulationRun(sim.args, Len(sim[c].runs)))]
    /\ UNCHANGED <<entropy, op>>
    /\ SimFrame

\* collect() and the return of Simulation { runs }.
Collect ==
    /\ \E c \in Calls :
        /\ Called(c)
        /\ Len(sim[c].runs) = sim.args.count
        /\ sim' = [sim EXCEPT ![c].pc = "done"]
    /\ UNCHANGED <<entropy, op>>
    /\ SimFrame

SuccessRate ==
    /\ \E c \in Calls :
        /\ sim[c].pc = "done"
        /\ op' = Op("success_rate", 0, F(0),
                    [panic |-> FALSE, ret |-> success_rate(sim[c])], c, 0)
    /\ UNCHANGED <<sim, entropy>>
    /\ SimFrame

\* Anything outside the arguments of the call changes.
Environment ==
    /\ entropy' = 1 - entropy
    /\ UNCHANGED <<sim, op>>
    /\ SimFrame

SimNext == ExecuteRun \/ Collect \/ SuccessRate \/ Environment

SpecSim == SimInit /\ [][SimNext]_vars

Trajectories(r) == [i \in 1..Len(r.retirement_accounts) |-> r.retirement_accounts[i].balance]

SameOutcome(r1, r2) ==
    /\ r1.lifespan = r2.lifespan
    /\ r1.assets_adequate_periods = r2.assets_adequate_periods
    /\ Trajectories(r1) = Trajectories(r2)

C4_SuccessRate ==
    sim # Idle
    =>
    /\ \A c \in Calls : sim[c].pc = "done" =>
          (Len(sim[c].runs) = sim.args.count /\ Len(sim[c].at) = sim.args.count)
    /\ op.name = "success_rate" =>
          /\ op.ret.denom = sim.args.count
          /\ op.ret.num = CountAdequate(sim[op.pre].runs, Len(sim[op.pre].runs))
                          + Cardinality({ k \in 1..Len(sim[op.pre].runs) :
                                sim[op.pre].runs[k].assets_adequate_periods
                                    = sim[op.pre].runs[k].lifespan })
          /\ 0 <= op.ret.num /\ op.ret.num <= op.ret.denom

\* success_rate has been called on a simulation of which one run was adequate
\* and another was not.
C4_Witness ==
    /\ sim # Idle
    /\ op.name = "success_rate"
    /\ 0 < op.ret.num
    /\ op.ret.num < op.ret.denom

----------------------------------------------------------------------------
(* SpecRates: one call of generate_rates for every seed, pool, block length  *)
(* and requested length within the bounds.                                   *)

MaxPool == 3

MaxRatesLength == 4

RateSeeds == { 0, 1, 13, 29, 34 }

rate_const(i) == Rate(F(i), F(i), F(i))

rate_seq(length) == [i \in 1..length |-> rate_const(i - 1)]

RatesInit ==
    /\ run \in [pc : {"call"}, seed : RateSeeds,
                rates_in : { rate_seq(R) : R \in 0..MaxPool },
                sublength : 0..(MaxPool + 1), length : 0..MaxRatesLength,
                panic : {FALSE}, rates : { <<>> }]
    /\ op = NoOp
    /\ account = Idle /\ tax = Idle /\ accounts = Idle /\ sim = Idle /\ entropy = 0
    /\ ledger = Idle

GenerateRates ==
    /\ run.pc = "call"
    /\ \E r \in { generate_rates(seed_from_u64(run.seed), run.rates_in,
                                 run.sublength, run.length) } :
        run' = [run EXCEPT !.pc = "done", !.panic = r.panic, !.rates = r.rates]
    /\ UNCHANGED <<account, tax, accounts, sim, entropy, ledger, op>>

RatesNext == GenerateRates

SpecRates == RatesInit /\ [][RatesNext]_vars

\* pool[lo..hi], 0-based and half open.
Slice(pool, lo, hi) == [j \in 1..(hi - lo) |-> pool[lo + j]]

\* The block C12 gives for a sampled k, for a pool of R rates and blocks of b.
BlockOf(pool, b, k) ==
    IF k < b - 1 THEN Slice(pool, 0, k + 1)
    ELSE IF k >= Len(pool) THEN Slice(pool, k - b + 1, Len(pool))
    ELSE Slice(pool, k - b + 1, k + 1)

\* The numbers sampled, in order, until the blocks they stand for hold at
\* least L rates between them (have holds the count so far).
RECURSIVE SampledUntil(_, _, _, _, _, _)
SampledUntil(rng, pool, b, L, have, ks) ==
    IF have >= L THEN ks
    ELSE LET num == sample_uniform(rng, Len(pool) + b - 1)
         IN SampledUntil(num.rng, pool, b, L,
                         have + Len(BlockOf(pool, b, num.value)),
                         Append(ks, num.value))

RECURSIVE BlocksOf(_, _, _, _)
BlocksOf(pool, b, ks, i) ==
    IF i > Len(ks) THEN <<>>
    ELSE BlockOf(pool, b, ks[i]) \o BlocksOf(pool, b, ks, i + 1)

RatesSampled ==
    SampledUntil(seed_from_u64(run.seed), run.rates_in, run.sublength, run.length, 0, <<>>)

\* C12: for 1 <= b <= R, generate_rates returns exactly L rates, the blocks of
\* the sampled numbers k in [0, R+b-1) in sampling order with only the last
\* block cut short; the block of k is pool[0..k+1] for k < b-1, pool[k-b+1..R]
\* for k >= R and pool[k-b+1..k+1] otherwise, each a non-empty contiguous
\* slice of the pool of at most b rates.
C12_BlocksInSamplingOrder ==
    (run.pc = "done" /\ 1 <= run.sublength /\ run.sublength <= Len(run.rates_in))
    =>
    /\ ~run.panic
    /\ Len(run.rates) = run.length
    /\ \A ks \in { RatesSampled } :
        /\ \A i \in 1..Len(ks) : 0 <= ks[i] /\ ks[i] < Len(run.rates_in) + run.sublength - 1
        /\ \A all \in { BlocksOf(run.rates_in, run.sublength, ks, 1) } :
              /\ Len(all) >= run.length
              /\ run.rates = SubSeq(all, 1, run.length)
    /\ \A k \in 0..(Len(run.rates_in) + run.sublength - 2) :
        \A block \in { BlockAt(run.rates_in, run.sublength, k) } :
            /\ block = BlockOf(run.rates_in, run.sublength, k)
            /\ 1 <= Len(block) /\ Len(block) <= run.sublength
            /\ \E lo \in 0..(Len(run.rates_in) - 1) :
                  block = Slice(run.rates_in, lo, lo + Len(block))

\* A result of several blocks, the first one short of b and the last one cut.
C12_Witness ==
    /\ run.pc = "done" /\ ~run.panic
    /\ run.sublength = 2 /\ Len(run.rates_in) = 3 /\ run.length = 4
    /\ Len(run.rates) = 4
    /\ \A ks \in { RatesSampled } :
        /\ Len(ks) >= 3
        /\ ks[1] = 0
        /\ Len(BlocksOf(run.rates_in, run.sublength, ks, 1)) > run.length

\* C13: generate_rates fails, producing no rates, when the block length is 0,
\* exceeds the pool size, or the pool is empty.
C13_BadBlockLengthFails ==
    (run.pc = "done"
        /\ (run.sublength = 0 \/ run.sublength > Len(run.rates_in) \/ Len(run.rates_in) = 0))
    =>
    (run.panic /\ run.rates = <<>>)

\* A failed call for a block longer than a non-empty pool, with rates asked for.
C13_Witness ==
    /\ run.pc = "done" /\ run.panic
    /\ Len(run.rates_in) >= 1 /\ run.sublength > Len(run.rates_in)
    /\ run.length >= 1

----------------------------------------------------------------------------
(* SpecPerson: calculate_periods for a seed, a month offset and a table of   *)
(* annual death probabilities, and once more, from the same seed, for a      *)
(* table that is nowhere lower.  A table whose last year has death           *)
(* probability 0 makes the loop of calculate_periods run forever; such       *)
(* tables are left out.                                                      *)

MaxYears == 2

PersonSeeds == { 0, 4, 13, 26 }

Offsets == { 0, 4, 11, 12 }

\* The annual death probability that leaves the monthly survival r.
AnnualDeath(r) == FSub(F(1), FPow(r, MonthsPerYear))

DeathProbabilities == { AnnualDeath(r) : r \in { F(0), Half, Rat(3, 4), F(1) } }

DeathTables ==
    { d \in UNION { [1..A -> DeathProbabilities] : A \in 1..MaxYears } :
        d[Len(d)] # F(0) }

\* A table and a table of the same years that is nowhere lower.
TablePairs ==
    { p \in DeathTables \X DeathTables :
        Len(p[1]) = Len(p[2]) /\ \A y \in 1..Len(p[1]) : FLe(p[1][y], p[2][y]) }

PersonInit ==
    /\ run \in { [pc |-> "call", seed |-> s, offset |-> o, annual_death |-> p[1],
                  raised |-> p[2], returned |-> {},
                  lifespan |-> [t \in {"annual_death", "raised"} |-> 0],
                  panic |-> [t \in {"annual_death", "raised"} |-> FALSE]] :
                 s \in PersonSeeds, o \in Offsets, p \in TablePairs }
    /\ op = NoOp
    /\ account = Idle /\ tax = Idle /\ accounts = Idle /\ sim = Idle /\ entropy = 0
    /\ ledger = Idle

PersonFrame == UNCHANGED <<account, tax, accounts, sim, entropy, ledger, op>>

\* calculate_periods(&mut T::seed_from_u64(seed), table, offset), its result
\* kept under the table's name.
Calculated(name, r) ==
    /\ run' = [run EXCEPT !.returned = @ \cup {name},
                          !.lifespan[name] = r.lifespan,
                          !.panic[name] = r.panic]
    /\ PersonFrame

CalculatePeriods ==
    /\ "annual_death" \notin run.returned
    /\ \E r \in { calculate_periods(seed_from_u64(run.seed), run.annual_death, run.offset) } :
        Calculated("annual_death", r)

CalculateRaised ==
    /\ "raised" \notin run.returned
    /\ \E r \in { calculate_periods(seed_from_u64(run.seed), run.raised, run.offset) } :
        Calculated("raised", r)

PersonNext == CalculatePeriods \/ CalculateRaised

SpecPerson == PersonInit /\ [][PersonNext]_vars

\* The year whose probability month i draws against, for A years and offset o.
YearOfMonth(i, o, A) == Min((i + o) \div MonthsPerYear, A - 1)

\* The first month i whose survival draw fails, month i drawing against s[year of i].
RECURSIVE FirstFailedDraw(_, _, _, _)
RECURSIVE FirstFailedDrawAfter(_, _, _, _)
FirstFailedDraw(rng, s, o, i) ==
    FirstFailedDrawAfter(s, o, i, gen_bool(rng, s[YearOfMonth(i, o, Len(s)) + 1]))

FirstFailedDrawAfter(s, o, i, lived) ==
    IF ~lived.value THEN i ELSE FirstFailedDraw(lived.rng, s, o, i + 1)

MonthlySurvival(d) == [y \in 1..Len(d) |-> Root12(FSub(F(1), d[y]))]

\* C14: calculate_periods returns the index of the first failed survival draw,
\* draw i using the monthly survival of year min(floor((i + o)/12), A-1): the
\* table has 12*A - o months, the first year 12 - o of them, and the months
\* past its end use the last year's value.
C14_FirstFailedDraw ==
    ("annual_death" \in run.returned /\ run.offset < MonthsPerYear)
    =>
    /\ ~run.panic["annual_death"]
    /\ \A s \in { MonthlySurvival(run.annual_death) } :
        /\ run.lifespan["annual_death"] =
               FirstFailedDraw(seed_from_u64(run.seed), s, run.offset, 0)
        /\ \A life_rates \in { convert_annual_death_to_monthly_life(run.annual_death,
                                                                    run.offset) } :
            /\ Len(life_rates) = MonthsPerYear * Len(run.annual_death) - run.offset
            /\ \A i \in 0..(Len(life_rates) - 1) :
                  life_rates[i + 1] = s[YearOfMonth(i, run.offset, Len(run.annual_death)) + 1]

\* A life that ends in the second year of a table with a month offset, the
\* two years' probabilities different.
C14_Witness ==
    /\ "annual_death" \in run.returned
    /\ ~run.panic["annual_death"]
    /\ run.offset \in 1..(MonthsPerYear - 1)
    /\ Len(run.annual_death) = 2
    /\ run.annual_death[1] # run.annual_death[2]
    /\ run.lifespan["annual_death"] > MonthsPerYear - run.offset

BothReturned ==
    /\ run.returned = {"annual_death", "raised"}
    /\ ~run.panic["annual_death"] /\ ~run.panic["raised"]

EveryMonthDraws(d) ==
    \A s \in { MonthlySurvival(d) } : \A y \in 1..Len(d) : FLt(s[y], F(1))

----------------------------------------------------------------------------
(* SpecAllocation: an AssetAllocation built by new or new_linear_glide, then *)
(* asked for its stocks and bonds fractions at any period.                   *)

MaxBefore == 3

MaxGlide == 3

Fractions == { F(0), Quarter, Half, F(1), Rat(5, 4), Rat(-1, 4) }

GlideVectors ==
    { <<>>, <<F(1)>>, <<F(1), Half, Rat(3, 4)>>, <<Half, Rat(5, 4)>>, <<Rat(-1, 4), Half>> }

QueryPeriods == 0..(MaxBefore + MaxGlide + 1)

AllocationInit ==
    /\ account = [pc |-> "none"]
    /\ op = NoOp
    /\ tax = Idle /\ accounts = Idle /\ run = Idle /\ sim = Idle /\ entropy = 0
    /\ ledger = Idle

AllocationFrame == UNCHANGED <<tax, accounts, run, sim, entropy, ledger>>

New ==
    /\ account.pc = "none"
    /\ \E g \in GlideVectors :
        \E r \in { AssetAllocation_new(g) } :
            account' = [pc |-> IF r.panic THEN "panic" ELSE "built", by |-> "new",
                        args |-> <<>>, stocks_glide |-> r.stocks_glide]
    /\ UNCHANGED op
    /\ AllocationFrame

NewLinearGlide ==
    /\ account.pc = "none"
    /\ \E periods_before \in 0..MaxBefore, periods_glide \in 0..MaxGlide,
          start_stocks \in Fractions, end_stocks \in Fractions :
        account' =
            IF new_linear_glide_panics(periods_before, start_stocks, periods_glide, end_stocks)
            THEN [pc |-> "panic", by |-> "new_linear_glide",
                  args |-> <<periods_before, start_stocks, periods_glide, end_stocks>>,
                  stocks_glide |-> <<>>]
            ELSE [pc |-> "built", by |-> "new_linear_glide",
                  args |-> <<periods_before, start_stocks, periods_glide, end_stocks>>,
                  stocks_glide |-> new_linear_glide(periods_before, start_stocks,
                                                    periods_glide, end_stocks)]
    /\ UNCHANGED op
    /\ AllocationFrame

Stocks ==
    /\ account.pc = "built"
    /\ \E t \in QueryPeriods :
        op' = Op("stocks", t, F(0), [panic |-> FALSE, ret |-> stocks(account.stocks_glide, t)],
                 account, 0)
    /\ UNCHANGED account
    /\ AllocationFrame

Bonds ==
    /\ account.pc = "built"
    /\ \E t \in QueryPeriods :
        op' = Op("bonds", t, F(0), [panic |-> FALSE, ret |-> bonds(account.stocks_glide, t)],
                 account, 0)
    /\ UNCHANGED account
    /\ AllocationFrame

AllocationNext == New \/ NewLinearGlide \/ Stocks \/ Bonds

SpecAllocation == AllocationInit /\ [][AllocationNext]_vars

\* The vector C16 gives for new_linear_glide(n_pre, s0, n_glide, s1).
IsLinearGlide(g, n_pre, s0, n_glide, s1) ==
    /\ Len(g) = n_pre + n_glide
    /\ \A i \in 0..(n_pre - 1) : g[i + 1] = s0
    /\ \A j \in 1..n_glide :
          g[(n_pre + j - 1) + 1] = FAdd(s0, FMul(FDiv(F(j), F(n_glide)), FSub(s1, s0)))

\* C16: stocks(t) = g[min(t, |g|-1)] and bonds(t) = 1 - stocks(t) at every
\* period t; new_linear_glide(n_pre, s0, n_glide, s1) builds g of length
\* n_pre + n_glide, s0 before the glide and s0 + (j/n_glide)*(s1 - s0) at
\* step j of it, so that stocks is s1 from period n_pre + n_glide - 1 on.
C16_GlidePath ==
    /\ (account.pc = "built" /\ op.name = "stocks")
        => op.ret = account.stocks_glide[Min(op.period, Len(account.stocks_glide) - 1) + 1]
    /\ (account.pc = "built" /\ op.name = "bonds")
        => op.ret = FSub(F(1),
                account.stocks_glide[Min(op.period, Len(account.stocks_glide) - 1) + 1])
    /\ (account.pc = "built" /\ account.by = "new_linear_glide")
        => /\ IsLinearGlide(account.stocks_glide, account.args[1], account.args[2],
                            account.args[3], account.args[4])
           /\ op.name = "stocks" /\ op.period >= account.args[1] + account.args[3] - 1
                => op.ret = account.args[4]

\* The stocks fraction asked for past the end of a glide between two
\* different fractions over several periods.
C16_Witness ==
    /\ account.pc = "built" /\ account.by = "new_linear_glide"
    /\ account.args[1] >= 2 /\ account.args[3] >= 2
    /\ account.args[2] # account.args[4]
    /\ op.name = "stocks"
    /\ op.period > account.args[1] + account.args[3]

----------------------------------------------------------------------------
(* SpecJob: one Job and its TaxCollector.  calculate_income_for_period is    *)
(* called for the periods of the career in order, as Run::populate calls it, *)
(* and once more for the period after the career, until it panics or retire  *)
(* consumes the job; retire may come at any time.                            *)
(* Careers of no month, one month, one year, more than one and more than two *)
(* years; lives one month shorter than the career, as long, and longer.      *)

MaxJobCareer == 13

MaxJobRetirement == 2

JobCareers == { 0, 1, MonthsPerYear, MaxJobCareer, 2 * MonthsPerYear + 1 }

\* Flat rates but for a month of stocks doubling, one of bonds halving, and
\* an inflation of 2 over the first year and of 3/2 over the second.
JobRates(lifespan) ==
    [i \in 1..lifespan |->
        Rate(IF i = 2 THEN F(2) ELSE F(1),
             IF i = 4 THEN Half ELSE F(1),
             IF i = 3 THEN F(2) ELSE IF i = MonthsPerYear + 2 THEN Rat(3, 2) ELSE F(1))]

JobLifespans(careerspan) ==
    { l \in { careerspan - 1, careerspan, careerspan + MaxJobRetirement } : l >= 0 }

\* The contributions of the Run; the three kinds that are permitted
\* together, with different and with equal settings; a permitted one before
\* one that is not.
JobContributionLists ==
    ContributionLists \cup
    { << Contribution(F(32), <<F(1)>>, Eighth, "Employee", "PreTax"),
         Contribution(F(0), <<Half>>, Quarter, "Employer", "PreTax"),
         Contribution(F(8), <<F(1)>>, Eighth, "Employee", "PostTax") >>,
      << Contribution(F(32), <<Half>>, Eighth, "Employee", "PreTax"),
         Contribution(F(32), <<Half>>, Eighth, "Employer", "PreTax"),
         Contribution(F(32), <<Half>>, Eighth, "Employee", "PostTax") >>,
      << Contribution(F(8), <<F(1)>>, Eighth, "Employee", "PostTax"),
         Contribution(F(8), <<F(1)>>, Eighth, "Employer", "PostTax") >> }

JobSettingsSet ==
    { JobSettings_new(F(RunGrossIncome), fica, raise, acs) :
        fica \in { Exempt, Participant(Eighth) },
        raise \in { RaiseSettings(F(1), FALSE), RaiseSettings(F(2), TRUE) },
        acs \in JobContributionLists }

JobInit ==
    /\ \E careerspan \in JobCareers :
        \E lifespan \in JobLifespans(careerspan) :
            \E js \in JobSettingsSet, ts \in RunTaxSettings :
                /\ run = [pc |-> "working", settings |-> js, lifespan |-> lifespan,
                          careerspan |-> careerspan, period |-> 0,
                          job |-> create_job(js, lifespan, careerspan,
                                             JobRates(lifespan)),
                          income |-> F(0), accts |-> <<>>]
                /\ tax = Tax_new(ts, JobRates(lifespan), lifespan)
    /\ op = NoOp
    /\ account = Idle /\ accounts = Idle /\ sim = Idle /\ entropy = 0
    /\ ledger = Idle

JobFrame == UNCHANGED <<account, accounts, sim, entropy, ledger>>

\* The state after calculate_income_for_period(period, tax) has returned r.
CalculatedIncome(r) ==
    /\ run' = [run EXCEPT !.pc = IF r.panic THEN "panic" ELSE "working",
                          !.period = @ + 1, !.job = r.job]
    /\ tax' = r.tax
    /\ op' = Op("calculate_income_for_period", run.period, F(0),
                [panic |-> r.panic, ret |-> F(0)], [job |-> run.job, tax |-> tax], 0)

CalculateIncomeForPeriod ==
    /\ run.pc = "working"
    /\ run.period <= run.careerspan
    /\ \E r \in { calculate_income_for_period(run.job, run.period, tax) } :
        CalculatedIncome(r)
    /\ JobFrame

\* The state after retire() has returned r.
RetiredWith(r) ==
    /\ run' = [run EXCEPT !.pc = "retired", !.income = r.income, !.accts = r.accts]
    /\ op' = Op("retire", run.period, F(0), [panic |-> FALSE, ret |-> r.income],
                [job |-> run.job, tax |-> tax], 0)

JobRetire ==
    /\ run.pc = "working"
    /\ \E r \in { retire(run.job) } : RetiredWith(r)
    /\ UNCHANGED tax
    /\ JobFrame

JobNext == CalculateIncomeForPeriod \/ JobRetire

SpecJob == JobInit /\ [][JobNext]_vars

\* gross * pct summed over the contributions of the given sources and taxability.
ContributionsOf(acs, gross, sources, taxability) ==
    LET chosen == SelectSeq(acs, LAMBDA a :
                      a.tax = taxability /\ a.contribution_source \in sources)
    IN  FSum([i \in 1..Len(chosen) |-> FMul(gross, chosen[i].contribution_pct)])

\* FICA on the full gross income.
FicaOf(job, gross) ==
    IF job.fica.kind = "Participant" THEN FMul(gross, job.fica.ss_rate) ELSE F(0)

\* The net income C17 gives for gross, taxed by the collector t at period.
NetOf(job, gross, t, period) ==
    FSub(FSub(collect_income_taxes(t,
                Taxable(FSub(gross,
                    ContributionsOf(job.account_contributions, gross,
                                    {"Employee"}, "PreTax"))),
                period).leftover,
              FicaOf(job, gross)),
         ContributionsOf(job.account_contributions, gross, {"Employee", "Employer"}, "PostTax"))

\* C17: after a call for period t that returns, net[t] is the leftover of
\* taxing Taxable(gross[t] - the Employee-PreTax contributions) less FICA
\* (gross[t] * ss_rate for a Participant, 0 when Exempt) less the PostTax
\* contributions; the collector has booked that same taxable amount, so an
\* Employer-PreTax contribution changes neither.
C17_NetIncome ==
    (op.name = "calculate_income_for_period" /\ ~op.panic)
    =>
    /\ run.job.net_income[op.period + 1] =
          NetOf(op.pre.job, run.job.gross_income[op.period + 1], op.pre.tax, op.period)
    /\ tax.gross_income[op.period + 1] =
          FSub(run.job.gross_income[op.period + 1],
               ContributionsOf(op.pre.job.account_contributions,
                               run.job.gross_income[op.period + 1], {"Employee"}, "PreTax"))

\* A Participant with an Employee-PreTax, an Employer-PreTax and a PostTax
\* contribution has been paid after a raise.
C17_Witness ==
    /\ op.name = "calculate_income_for_period" /\ ~op.panic
    /\ op.period >= MonthsPerYear
    /\ run.job.fica.kind = "Participant"
    /\ Len(run.job.account_contributions) = 3
    /\ FLt(run.job.gross_income[1], run.job.gross_income[op.period + 1])
    /\ FLt(F(0), run.job.net_income[op.period + 1])
    /\ FLt(tax.gross_income[op.period + 1], run.job.gross_income[op.period + 1])

\* The mean of the last months entries of net.
MeanOfLast(net, months) ==
    FDiv(FSum([i \in 1..months |-> net[Len(net) - months + i]]), F(months))

\* C18: retire() returns the mean of the last min(12, career.periods)
\* entries of the net income vector, and every contribution account in its
\* original order, each with a balance vector of length lifespan.periods.
C18_Retire ==
    (op.name = "retire")
    =>
    /\ run.careerspan >= 1
        => run.income = MeanOfLast(op.pre.job.net_income,
                                   Min(MonthsPerYear, run.careerspan))
    /\ Len(run.accts) = Len(run.settings.account_contribution_settings)
    /\ \A i \in 1..Len(run.accts) :
        /\ run.accts[i] = op.pre.job.account_contributions[i].account
        /\ run.accts[i].starting_balance =
              run.settings.account_contribution_settings[i].starting_balance
        /\ run.accts[i].allocation =
              run.settings.account_contribution_settings[i].allocation
        /\ Len(run.accts[i].balance) = run.lifespan

\* A job of several different accounts retires after a career of more than
\* a year, with a raise, in a life longer than the career.
C18_Witness ==
    /\ op.name = "retire"
    /\ run.careerspan > MonthsPerYear /\ run.period = run.careerspan
    /\ run.lifespan > run.careerspan
    /\ Len(run.accts) = 3
    /\ FLt(op.pre.job.net_income[1], op.pre.job.net_income[run.careerspan])
    /\ FLt(F(0), run.income)

\* Some contribution of the job is the employer's and PostTax.
HasEmployerPostTax(acs) ==
    \E i \in 1..Len(acs) :
        acs[i].contribution_source = "Employer" /\ acs[i].tax = "PostTax"

\* C19: a job holding an Employer-PostTax contribution is never paid:
\* calculate_income_for_period panics for it and the net income of that
\* period stays as create_job wrote it.
C19_EmployerPostTaxRejected ==
    (op.name = "calculate_income_for_period"
        /\ HasEmployerPostTax(op.pre.job.account_contributions))
    =>
    /\ op.panic
    /\ run.job.net_income = op.pre.job.net_income
    /\ \A k \in 1..Len(run.job.net_income) : run.job.net_income[k] = F(0)

\* The call has panicked in the PostTax loop, behind a permitted PostTax
\* contribution: the gross income of the period is written, the net is not.
C19_Witness ==
    /\ op.name = "calculate_income_for_period" /\ op.panic
    /\ op.period < run.careerspan
    /\ Len(op.pre.job.account_contributions) = 2
    /\ HasEmployerPostTax(op.pre.job.account_contributions)
    /\ op.pre.job.account_contributions[1].contribution_source = "Employee"
    /\ run.job.gross_income[op.period + 1] = F(RunGrossIncome)
    /\ run.job.net_income[op.period + 1] = F(0)
    /\ FLt(op.pre.job.account_contributions[1].account.balance[op.period + 1],
           run.job.account_contributions[1].account.balance[op.period + 1])

----------------------------------------------------------------------------
(* SpecRun again: the runs whose career is not shorter than the life.        *)

CareerAbort(r) ==
    /\ r.log # <<>>
    /\ r.log[Len(r.log)] =
          Event("calculate_income_for_period", r.log[Len(r.log)].period, FALSE)
    /\ \/ r.careerspan = 0 /\ r.log[Len(r.log)].period = 0
       \/ HasEmployerPostTax(r.job.account_contributions)

----------------------------------------------------------------------------
(* SpecSeeds: the seeds of two calls of Simulation::new with the same count, *)
(* the closure of each called for seed2 = 0, 1, ... in order, in a build     *)
(* with overflow checks and in one without.                                  *)

MaxSeedCount == 3

SeedInputs == { 0, 1, 13, 21, 32, 42, U64Values - 1 }

SeedsInit ==
    /\ sim \in [seed : [1..2 -> SeedInputs], count : 0..MaxSeedCount,
                overflow_checks : BOOLEAN, seeds : { << <<>>, <<>> >> },
                panic : { <<FALSE, FALSE>> }]
    /\ op = NoOp
    /\ account = Idle /\ tax = Idle /\ accounts = Idle /\ run = Idle /\ entropy = 0
    /\ ledger = Idle

\* Call c has computed s for its next seed2.
SeedComputed(c, s) ==
    sim' = [sim EXCEPT !.panic[c] = s.panic,
                       !.seeds[c] = IF s.panic THEN @ ELSE Append(@, s.value)]

NewSeed ==
    /\ \E c \in 1..2 :
        /\ ~sim.panic[c]
        /\ Len(sim.seeds[c]) < sim.count
        /\ \E s \in { new_seed(sim.seed[c], sim.count, Len(sim.seeds[c]),
                               sim.overflow_checks) } :
            SeedComputed(c, s)
    /\ UNCHANGED <<account, tax, accounts, run, entropy, ledger, op>>

SeedsNext == NewSeed

SpecSeeds == SeedsInit /\ [][SeedsNext]_vars

\* C21: run i of Simulation::new(seed, N, ...) gets the seed seed*N + i,
\* computed without truncation or wrap-around, so the seeds of one
\* simulation are pairwise distinct and those of two simulations with the
\* same N and different seeds are disjoint.
C21_SeedsExact ==
    /\ \A c \in 1..2 :
        /\ ~sim.panic[c]
        /\ \A i \in 1..Len(sim.seeds[c]) :
              sim.seeds[c][i] = sim.seed[c] * sim.count + (i - 1)
        /\ \A i, j \in 1..Len(sim.seeds[c]) :
              i # j => sim.seeds[c][i] # sim.seeds[c][j]
    /\ sim.seed[1] # sim.seed[2]
        => \A i \in 1..Len(sim.seeds[1]), j \in 1..Len(sim.seeds[2]) :
              sim.seeds[1][i] # sim.seeds[2][j]

----------------------------------------------------------------------------
(* SpecRun again: the calls of the career phase.                            *)

\* The places of the log where calculate_income_for_period was called.
IncomeCalls(r) ==
    { k \in 1..Len(r.log) : r.log[k].name = "calculate_income_for_period" }

\* The career phase of r is over and populate has not panicked.
CareerOver(r) == r.pc \in {"retire", "retirement", "store", "done"}

\* What a step of populate may do to the collector: nothing, or book income
\* at the period the step is at, every later period being untouched.
BooksAtCurrent ==
    (run'.tax # run.tax)
    =>
    /\ run'.current = run.current + 1
    /\ \A p \in 0..(run.lifespan - 1) :
          p # run.current => run'.tax.gross_income[p + 1] = run.tax.gross_income[p + 1]
    /\ \A p \in run.current..(run.lifespan - 1) :
          run.tax.gross_income[p + 1] = F(0)

\* The calls of the career phase are those of t = 0, 1, ... in this order,
\* each counted once it has returned, none at t >= career.periods.
CareerCallsInOrder(r) ==
    /\ \A k \in IncomeCalls(r) :
          /\ r.log[k].period = k - 1
          /\ r.log[k].period < Min(r.careerspan, r.lifespan)
          /\ r.log[k].ok \/ (k = Len(r.log) /\ r.pc = "panic")
    /\ r.pc = "career" =>
          /\ IncomeCalls(r) = 1..r.current
          /\ r.assets_adequate_periods = r.current
    /\ CareerOver(r) =>
          /\ IncomeCalls(r) = 1..Min(r.careerspan, r.lifespan)
          /\ r.assets_adequate_periods >= Min(r.careerspan, r.lifespan)

\* C22: for a run with career.periods >= 1 the career phase calls
\* calculate_income_for_period once for each t = 0 .. min(career.periods,
\* lifespan.periods) - 1, in increasing order, counting a period after each
\* call, never for t >= career.periods, and the collector's gross_income is
\* written only at increasing periods.
C22_CareerCalls ==
    /\ [](run.careerspan >= 1 => CareerCallsInOrder(run))
    /\ [][run.careerspan >= 1 => BooksAtCurrent]_vars

\* populate has returned after a career of several periods, shorter than
\* the life, each period's income booked by the collector.
C22_Witness ==
    /\ run # Idle
    /\ run.pc = "done"
    /\ run.careerspan >= 2
    /\ run.lifespan > run.careerspan
    /\ Cardinality(IncomeCalls(run)) = run.careerspan
    /\ \A p \in 0..(run.careerspan - 1) : FLt(F(0), run.tax.gross_income[p + 1])
    /\ \E k \in 1..Len(run.log) : run.log[k].name = "withdraw"

\* The statements populate has yet to pass: the rank of its place, and the
\* periods left to the life iterator.
PlaceRank(pc) ==
    CASE pc = "career" -> 4 [] pc = "retire" -> 3 [] pc = "retirement" -> 2
      [] pc = "store" -> 1 [] OTHER -> 0

\* A step of populate goes to a later place, or stays in its loop and takes
\* a period from the life iterator: populate cannot run forever.
Advances ==
    \/ PlaceRank(run'.pc) < PlaceRank(run.pc)
    \/ /\ run'.pc = run.pc
       /\ run'.current = run.current + 1
       /\ run'.current <= run.lifespan

\* C23: if lifespan.periods <= career.periods the run computes income for
\* exactly lifespan.periods months, performs no retirement rebalance or
\* withdrawal, and returns with assets_adequate_periods = lifespan.periods:
\* it does not panic (but for a job with a contribution that is not
\* permitted, which panics in its first month), every step advances, and
\* retire is followed by the return alone.
C23_DiesBeforeRetirement ==
    /\ []((run.lifespan <= run.careerspan)
            => /\ \A k \in 1..Len(run.log) : run.log[k].name \notin {"rebalance", "withdraw"}
               /\ run.pc = "panic"
                    => /\ HasEmployerPostTax(run.job.account_contributions)
                       /\ run.log = << Event("calculate_income_for_period", 0, FALSE) >>
               /\ run.pc \in {"retirement", "store", "done"}
                    => /\ IncomeCalls(run) = 1..run.lifespan
                       /\ Len(run.log) = run.lifespan + 1
                       /\ run.current = run.lifespan
                       /\ run.assets_adequate_periods = run.lifespan)
    /\ [][run.lifespan <= run.careerspan => Advances]_vars

\* populate has returned for a person who died in the month of retirement,
\* with two accounts.
C23_Witness ==
    /\ run # Idle
    /\ run.pc = "done"
    /\ run.lifespan = run.careerspan
    /\ run.lifespan >= 2
    /\ Len(run.retirement_accounts) = 2
    /\ run.assets_adequate_periods = run.lifespan
    /\ run.log[Len(run.log)] = Event("retire", run.lifespan, TRUE)

----------------------------------------------------------------------------
(* SpecRun again: the order of rebalance, deposit and withdrawal.            *)

\* The accounts of the run: the job's until retire has handed them over.
AccountsOf(r) ==
    IF r.pc \in {"career", "retire"} \/ (r.pc = "panic" /\ r.accts = <<>>)
    THEN [i \in 1..Len(r.job.account_contributions) |->
            r.job.account_contributions[i].account]
    ELSE r.accts

\* balance[t] of every account is still 0 at the periods the run has not reached.
UntouchedFrom(r, t) ==
    \A i \in 1..Len(AccountsOf(r)) :
        \A p \in t..(r.lifespan - 1) : AccountsOf(r)[i].balance[p + 1] = F(0)

\* A pass of the career loop at period t that returned: balance[t] of every
\* account is the one rebalance of last period's balance plus the deposit.
CareerPassRebalancesFirst ==
    (run.pc = "career" /\ run'.pc # "panic" /\ run'.current = run.current + 1)
    =>
    \A i \in 1..Len(run.job.account_contributions) :
        \E rb \in { rebalance_and_invest_next_period(
                        run.job.account_contributions[i].account, run.current) } :
            /\ ~rb.panic
            /\ run'.job.account_contributions[i].account.balance[run.current + 1] =
                  FAdd(rb.acct.balance[run.current + 1],
                       FMul(run'.job.gross_income[run.current + 1],
                            run.job.account_contributions[i].contribution_pct))

\* A pass of the retirement loop at period t: one rebalance in the log, then
\* the withdrawal, which takes from the rebalanced balance[t].
RetirementPassRebalancesFirst ==
    (run.pc = "retirement" /\ run'.current = run.current + 1)
    =>
    /\ run'.pc # "panic"
    /\ run'.log = Append(Append(run.log, Event("rebalance", run.current, TRUE)),
                         Event("withdraw", run.current, run'.log[Len(run'.log)].ok))
    /\ \A i \in 1..Len(run.accts) :
        \E rb \in { rebalance_and_invest_next_period(run.accts[i], run.current) } :
            /\ ~rb.panic
            /\ FLe(run'.accts[i].balance[run.current + 1], rb.acct.balance[run.current + 1])

\* C24: in every run, at each period t it reaches, each account is
\* rebalanced once, before the deposit (career) or the withdrawal
\* (retirement) on balance[t]; balance[t] is 0 when the rebalance is called,
\* so its assertion never fails: populate panics only in the calls C19 and
\* C20 name.
C24_RebalanceFirst ==
    /\ [](/\ run.pc \in {"career", "retire", "retirement", "store", "done"}
                => UntouchedFrom(run, run.current)
          /\ run.pc = "panic" => CareerAbort(run))
    /\ [][CareerPassRebalancesFirst /\ RetirementPassRebalancesFirst]_vars

\* A run of two accounts has passed two periods of work and two of
\* retirement, both accounts holding money at the last.
C24_Witness ==
    /\ run # Idle
    /\ run.pc = "done"
    /\ Len(run.retirement_accounts) = 2
    /\ run.careerspan >= 2
    /\ run.lifespan >= run.careerspan + 2
    /\ Cardinality({ k \in 1..Len(run.log) : run.log[k].name = "rebalance" }) >= 2
    /\ \A i \in 1..2 : FLt(F(0), run.retirement_accounts[i].balance[run.careerspan + 1])

----------------------------------------------------------------------------
(* SpecTaxAmount: Tax::calculate_tax_amount as a function of the income and  *)
(* the period, for sorted brackets starting at 0, with and without the two   *)
(* inflation adjustments, at a period of the first year or the second.       *)
(* ledger keeps the call before the last one.                                *)

TaxAmountLifespan == 14

\* Inflation in two months of the first year: 2 * 3/2 = 3 over the year.
TaxAmountRates ==
    [i \in 1..TaxAmountLifespan |->
        Rate(F(1), F(1), IF i = 3 THEN F(2) ELSE IF i = 5 THEN Rat(3, 2) ELSE F(1))]

SortedBrackets ==
    { << TaxBracket(F(0), Eighth) >>,
      << TaxBracket(F(0), F(0)), TaxBracket(F(8), Quarter) >>,
      << TaxBracket(F(0), Eighth), TaxBracket(F(8), Quarter), TaxBracket(F(24), Half) >>,
      << TaxBracket(F(0), Quarter), TaxBracket(F(0), Half), TaxBracket(F(16), Eighth) >> }

TaxAmountSettings ==
    { TaxSettings_new(brackets, adjust_brackets, deduction, adjust_deduction) :
        brackets \in SortedBrackets, adjust_brackets \in BOOLEAN,
        deduction \in { F(0), F(4) }, adjust_deduction \in BOOLEAN }

TaxAmountIncomes == { F(0), F(2), F(4), F(12), F(20), F(28), F(36), F(60), F(100) }

TaxAmountPeriods == { 0, MonthsPerYear - 1, MonthsPerYear, TaxAmountLifespan - 1 }

TaxAmountInit ==
    /\ tax \in { Tax_new(settings, TaxAmountRates, TaxAmountLifespan) :
                    settings \in TaxAmountSettings }
    /\ run \in [period : TaxAmountPeriods]
    /\ op = NoOp
    /\ ledger = NoOp
    /\ account = Idle /\ accounts = Idle /\ sim = Idle /\ entropy = 0

CalculateTaxAmount ==
    /\ \E money \in TaxAmountIncomes :
        op' = Op("calculate_tax_amount", run.period, money,
                 [panic |-> calculate_tax_amount_panics(tax, run.period),
                  ret |-> IF calculate_tax_amount_panics(tax, run.period) THEN F(0)
                          ELSE calculate_tax_amount(tax, money, run.period)],
                 Idle, 0)
    /\ ledger' = op
    /\ UNCHANGED <<account, tax, accounts, run, sim, entropy>>

TaxAmountNext == CalculateTaxAmount

SpecTaxAmount == TaxAmountInit /\ [][TaxAmountNext]_vars

\* F_d and F_b: the product of the 12 inflation multipliers of the year
\* before the year of t when the flag is on and that year starts after 0.
YearFactor(rates, flag, t) ==
    LET start == (t \div MonthsPerYear) * MonthsPerYear
    IN  IF flag /\ start > 0
        THEN FProduct([i \in 1..MonthsPerYear |-> rates[start - MonthsPerYear + i].inflation])
        ELSE F(1)

MaxZero(v) == IF FLt(F(0), v) THEN v ELSE F(0)

\* r_i * max(0, min(x', f_(i+1)*F_b) - f_i*F_b), the last bracket unbounded.
InBracket(brackets, i, x, Fb) ==
    FMul(brackets[i].rate,
         MaxZero(FSub(IF i = Len(brackets) THEN x
                      ELSE FMin(x, FMul(brackets[i + 1].floor, Fb)),
                      FMul(brackets[i].floor, Fb))))

MarginalTaxes(t, x, period) ==
    LET Fd == YearFactor(t.rates, t.settings.adjust_deduction_for_inflation, period)
        Fb == YearFactor(t.rates, t.settings.adjust_bracket_floors_for_inflation, period)
    IN  FSum([i \in 1..Len(t.settings.brackets) |->
                InBracket(t.settings.brackets, i, FSub(x, FMul(t.settings.deduction, Fd)), Fb)])

\* C25: for brackets sorted by ascending floor from 0, calculate_tax_amount
\* is the sum over the brackets of r_i * max(0, min(x', f_(i+1)*F_b) - f_i*F_b)
\* with x' = x - deduction*F_d; it is 0 whenever x <= deduction*F_d, and
\* non-decreasing in x.
C25_MarginalTaxes ==
    (op.name = "calculate_tax_amount")
    =>
    /\ ~op.panic
    /\ op.ret = MarginalTaxes(tax, op.amount, op.period)
    /\ FLe(op.amount,
           FMul(tax.settings.deduction,
                YearFactor(tax.rates, tax.settings.adjust_deduction_for_inflation, op.period)))
        => op.ret = F(0)
    /\ (ledger.name = "calculate_tax_amount" /\ ledger.period = op.period
            /\ FLe(ledger.amount, op.amount))
        => FLe(ledger.ret, op.ret)

\* Two incomes taxed in the second year with both adjustments on, the
\* higher one reaching the last of three brackets.
C25_Witness ==
    /\ op.name = "calculate_tax_amount" /\ ledger.name = "calculate_tax_amount"
    /\ op.period >= MonthsPerYear /\ ledger.period = op.period
    /\ tax.settings.adjust_deduction_for_inflation
    /\ tax.settings.adjust_bracket_floors_for_inflation
    /\ FLt(F(0), tax.settings.deduction)
    /\ Len(tax.settings.brackets) = 3
    /\ FLt(F(0), ledger.ret) /\ FLt(ledger.ret, op.ret)
    /\ FLt(FMul(tax.settings.brackets[3].floor, F(3)),
           FSub(op.amount, FMul(tax.settings.deduction, F(3))))

----------------------------------------------------------------------------
(* SpecJob again: the gross income.                                          *)

\* The product of rate[t-12..t).inflation.
InflationOver(rates, t) ==
    FProduct([i \in 1..MonthsPerYear |-> rates[t - MonthsPerYear + i].inflation])

\* gross[t] as C26 gives it from gross[t-1].
GrossAt(job, t) ==
    IF t = 0 THEN job.starting_gross_income
    ELSE IF t % MonthsPerYear # 0 THEN job.gross_income[(t - 1) + 1]
    ELSE FMul(FMul(job.gross_income[(t - 1) + 1], job.raise.amount),
              IF job.raise.adjust_for_inflation THEN InflationOver(job.rates, t) ELSE F(1))

\* C26: gross[0] is the starting gross; gross[t] = gross[t-1] when t mod 12
\* # 0 and gross[t-1] * raise.amount * I when t mod 12 = 0, t > 0, I the
\* product of rate[t-12..t).inflation if adjust_for_inflation and 1
\* otherwise; so gross is constant within each 12-month block, and period 0
\* gets no raise.
C26_GrossIncome ==
    (op.name = "calculate_income_for_period"
        /\ run.job.gross_income # op.pre.job.gross_income)
    =>
    /\ run.job.gross_income[op.period + 1] = GrossAt(run.job, op.period)
    /\ run.job.gross_income[1] = run.job.starting_gross_income
    /\ \A p \in 0..op.period :
          p \div MonthsPerYear = op.period \div MonthsPerYear
            => run.job.gross_income[p + 1] = run.job.gross_income[op.period + 1]

\* The job has been paid its second raise, adjusted for an inflation that
\* differs from the first year's.
C26_Witness ==
    /\ op.name = "calculate_income_for_period" /\ ~op.panic
    /\ op.period = 2 * MonthsPerYear
    /\ run.job.raise.adjust_for_inflation
    /\ InflationOver(run.job.rates, op.period) # InflationOver(run.job.rates, MonthsPerYear)
    /\ FLt(run.job.gross_income[1], run.job.gross_income[MonthsPerYear + 1])
    /\ FLt(run.job.gross_income[MonthsPerYear + 1], run.job.gross_income[op.period + 1])

----------------------------------------------------------------------------
(* SpecJob again: the deposits.                                              *)

\* Contributions i and j of the job have the same account settings.
SameContribution(acs, i, j) ==
    /\ acs[i].contribution_pct = acs[j].contribution_pct
    /\ acs[i].account.starting_balance = acs[j].account.starting_balance
    /\ acs[i].account.allocation = acs[j].account.allocation
    /\ acs[i].account.rates = acs[j].account.rates

\* C27: a call for a career period t that returns has given every
\* contribution account one deposit of gross[t] * contribution_pct on top of
\* its rebalance at t, whatever its (permitted) source and taxability; a call
\* for a period >= career.periods deposits nothing; so accounts of equal pct,
\* starting balance, allocation and rates have the same balances, be they
\* Employee-PreTax, Employer-PreTax or Employee-PostTax.
C27_Deposits ==
    /\ (op.name = "calculate_income_for_period" /\ ~op.panic)
        => \A i \in 1..Len(run.job.account_contributions) :
            \E rb \in { rebalance_and_invest_next_period(
                            op.pre.job.account_contributions[i].account, op.period) } :
                run.job.account_contributions[i].account.balance =
                    [op.pre.job.account_contributions[i].account.balance
                        EXCEPT ![op.period + 1] =
                            FAdd(rb.acct.balance[op.period + 1],
                                 FMul(run.job.gross_income[op.period + 1],
                                      run.job.account_contributions[i].contribution_pct))]
    /\ (op.name = "calculate_income_for_period" /\ op.period >= run.careerspan)
        => /\ op.panic
           /\ run.job.account_contributions = op.pre.job.account_contributions
    /\ run.pc \in {"working", "retired"}
        => \A i \in 1..Len(run.job.account_contributions) :
            /\ \A p \in run.careerspan..(run.lifespan - 1) :
                  run.job.account_contributions[i].account.balance[p + 1] = F(0)
            /\ \A j \in 1..Len(run.job.account_contributions) :
                  SameContribution(run.job.account_contributions, i, j)
                    => run.job.account_contributions[i].account.balance =
                          run.job.account_contributions[j].account.balance

\* Three accounts of equal settings and different kinds hold the same
\* growing balances after more than a year of deposits.
C27_Witness ==
    /\ op.name = "calculate_income_for_period" /\ ~op.panic
    /\ op.period >= MonthsPerYear
    /\ Len(run.job.account_contributions) = 3
    /\ \A i, j \in 1..3 : SameContribution(run.job.account_contributions, i, j)
    /\ { run.job.account_contributions[i].contribution_source : i \in 1..3 }
          = {"Employee", "Employer"}
    /\ { run.job.account_contributions[i].tax : i \in 1..3 } = {"PreTax", "PostTax"}
    /\ FLt(run.job.account_contributions[2].account.balance[op.period],
           run.job.account_contributions[2].account.balance[op.period + 1])

----------------------------------------------------------------------------
(* SpecWithdrawal again: the balances a shortfall leaves.                    *)

\* The strategy has reported a shortfall on accounts of total balance S > 0.
ShortfallReported ==
    /\ op.name = "WithdrawalStrategy" /\ op.period < WdPeriods
    /\ ~op.panic /\ ~op.ret.ok
    /\ FLt(F(0), FSum(BalancesAt(op.pre, op.period)))

\* C28 as stated: whenever the strategy reports a shortfall at period t with
\* total balance S > 0, every account's balance[t] is 0 afterwards.
C28_ShortfallEmptiesAll ==
    ShortfallReported
    => \A i \in 1..Len(accounts) : accounts[i].balance[op.period + 1] = F(0)

\* C28, amended: the same for accounts whose balances at t are all finite
\* and none of them negative.
C28_ShortfallEmptiesNonNegative ==
    (ShortfallReported
        /\ \A i \in 1..Len(op.pre) :
              /\ IsFinite(op.pre[i].balance[op.period + 1])
              /\ FLe(F(0), op.pre[i].balance[op.period + 1]))
    => \A i \in 1..Len(accounts) : accounts[i].balance[op.period + 1] = F(0)

\* A draw of more than the total from two accounts with different positive
\* balances has left both empty.
C28_Witness ==
    /\ ShortfallReported
    /\ Len(op.pre) = 2
    /\ FLt(F(0), op.pre[1].balance[op.period + 1])
    /\ FLt(op.pre[1].balance[op.period + 1], op.pre[2].balance[op.period + 1])
    /\ \A i \in 1..2 : accounts[i].balance[op.period + 1] = F(0)
    /\ FLt(F(0), op.ret.shortfall)

----------------------------------------------------------------------------
(* SpecGenerate: the loop of generate_rates_with_distribution, one sample    *)
(* an iteration, for every pool, block length and requested length within    *)
(* the bounds and every number the distribution of generate_rates can give.  *)

\* An iteration that appends the whole block, however many rates are missing.
GenerateIterationUncut(rates_in, sublength, length, rates, num) ==
    LET extended == rates \o BlockAt(rates_in, sublength, num)
    IN  [pc |-> IF Len(extended) = length THEN "done"
                ELSE IF Len(extended) < length THEN "loop" ELSE "panic",
         rates |-> extended]

\* One iteration of the loop for the sampled num: the block is cut to what is
\* still missing and appended; the loop returns when length rates are there.
GenerateIteration(rates_in, sublength, length, rates, num) ==
    LET slice == BlockAt(rates_in, sublength, num)
        extended == rates \o SubSeq(slice, 1, Min(Len(slice), length - Len(rates)))
    IN  [pc |-> IF Len(extended) = length THEN "done"
                ELSE IF Len(extended) < length THEN "loop" ELSE "panic",
         rates |-> extended]

GenerateInit ==
    /\ run \in [pc : {"call"},
                rates_in : { rate_seq(R) : R \in 0..MaxPool },
                sublength : 0..(MaxPool + 1), length : 0..MaxRatesLength,
                high : {0}, rates : { <<>> }, iterations : {0}, sampled : { <<>> }]
    /\ op = NoOp
    /\ account = Idle /\ tax = Idle /\ accounts = Idle /\ sim = Idle /\ entropy = 0
    /\ ledger = Idle

\* generate_rates builds the distribution and the asserts are evaluated.
EnterGenerate ==
    /\ run.pc = "call"
    /\ run' = [run EXCEPT
                 !.pc = IF \/ Len(run.rates_in) + run.sublength - 1 <= 0
                           \/ ~(run.sublength <= Len(run.rates_in))
                           \/ run.sublength = 0
                           \/ Len(run.rates_in) = 0
                        THEN "panic" ELSE "loop",
                 !.high = Len(run.rates_in) + run.sublength - 1]
    /\ UNCHANGED <<account, tax, accounts, sim, entropy, ledger, op>>

\* One pass of the loop body, for any number below high.
SampleAndExtend ==
    /\ run.pc = "loop"
    /\ \E num \in 0..(run.high - 1) :
        \E r \in { GenerateIteration(run.rates_in, run.sublength, run.length,
                                     run.rates, num) } :
            run' = [run EXCEPT !.pc = r.pc, !.rates = r.rates,
                               !.iterations = @ + 1,
                               !.sampled = Append(@, num)]
    /\ UNCHANGED <<account, tax, accounts, sim, entropy, ledger, op>>

GenerateNext == EnterGenerate \/ SampleAndExtend

SpecGenerate == GenerateInit /\ [][GenerateNext]_vars

\* The loop body is run again as long as the call has not returned.
SpecGenerateFair == SpecGenerate /\ WF_vars(GenerateNext)

\* 1 <= b <= R.
BlockLengthFits == 1 <= run.sublength /\ run.sublength <= Len(run.rates_in)

MaxOf(a, b) == IF a >= b THEN a ELSE b

\* An iteration appends to what was there: at least one rate while fewer than
\* L were there, and never past L.
AppendsWithinLength ==
    run.pc = "loop" =>
        /\ Len(run'.rates) >= Len(run.rates)
        /\ SubSeq(run'.rates, 1, Len(run.rates)) = run.rates
        /\ Len(run.rates) < run.length => Len(run'.rates) >= Len(run.rates) + 1
        /\ Len(run'.rates) <= run.length
        /\ run'.pc \in {"loop", "done"}

\* C29: with 1 <= b <= R and every sampled k in [0, R+b-1), each iteration of
\* generate_rates appends at least one rate while fewer than L are there and
\* never goes past L, the loop is left after at most max(L, 1) iterations
\* (for L = 0 with no rates after one sample), and the call returns.
C29_GenerateTerminates ==
    /\ [](BlockLengthFits =>
            /\ run.pc # "panic"
            /\ Len(run.rates) <= run.length
            /\ run.iterations <= MaxOf(run.length, 1)
            /\ run.pc = "loop" => run.iterations < MaxOf(run.length, 1)
            /\ run.pc = "done" =>
                  /\ Len(run.rates) = run.length
                  /\ run.iterations >= 1
                  /\ run.length = 0 => run.iterations = 1 /\ run.rates = <<>>)
    /\ [][BlockLengthFits => AppendsWithinLength]_vars
    /\ (BlockLengthFits ~> (run.pc = "done"))

\* A call for more than one rate has returned after as many iterations as
\* rates, the last of them on a number at the end of the range.
C29_Witness ==
    /\ BlockLengthFits
    /\ run.pc = "done"
    /\ run.length > 1
    /\ run.iterations = run.length
    /\ run.sublength > 1
    /\ run.sampled[Len(run.sampled)] = run.high - 1

----------------------------------------------------------------------------
(* SpecRun again: the sign of the balances.                                  *)

\* Starting balances, rate multipliers and the starting gross income are
\* finite and not negative, contribution percentages lie in [0, 1].
NonNegativeInputs(r) ==
    /\ \A i \in 1..Len(r.rates) :
        \A x \in { r.rates[i].stocks, r.rates[i].bonds, r.rates[i].inflation } :
            IsFinite(x) /\ FLe(F(0), x)
    /\ IsFinite(r.job.starting_gross_income) /\ FLe(F(0), r.job.starting_gross_income)
    /\ \A t \in 1..Len(r.job.gross_income) : FLe(F(0), r.job.gross_income[t])
    /\ \A i \in 1..Len(r.job.account_contributions) :
        /\ FLe(F(0), r.job.account_contributions[i].contribution_pct)
        /\ FLe(r.job.account_contributions[i].contribution_pct, F(1))
    /\ \A i \in 1..Len(AccountsOf(r)) :
        /\ IsFinite(AccountsOf(r)[i].starting_balance)
        /\ FLe(F(0), AccountsOf(r)[i].starting_balance)

\* C30: in every state of a run with inputs that are not negative and
\* contribution percentages in [0, 1], every entry of every account's balance
\* vector is >= 0 (the vector populate stores at its end included), and the
\* entries at the periods the run has not reached yet are exactly 0.
C30_BalancesNonNegative ==
    (run.pc # "panic" /\ NonNegativeInputs(run))
    =>
    /\ \A i \in 1..Len(AccountsOf(run)) :
        /\ Len(AccountsOf(run)[i].balance) = run.lifespan
        /\ \A p \in 1..run.lifespan :
            /\ FLe(F(0), AccountsOf(run)[i].balance[p])
            /\ p > run.current => AccountsOf(run)[i].balance[p] = F(0)
    /\ \A i \in 1..Len(run.retirement_accounts) :
        \A p \in 1..run.lifespan : FLe(F(0), run.retirement_accounts[i].balance[p])

\* A run has ended on a shortfall before the end of the life: its account
\* held money while it worked, is empty at the period of the shortfall and
\* untouched after it.
C30_Witness ==
    /\ run # Idle
    /\ run.pc = "done"
    /\ NonNegativeInputs(run)
    /\ run.careerspan >= 1
    /\ run.current < run.lifespan
    /\ Len(run.retirement_accounts) >= 1
    /\ FLt(F(0), run.retirement_accounts[1].balance[run.careerspan])
    /\ run.retirement_accounts[1].balance[run.current] = F(0)
    /\ run.retirement_accounts[1].balance[run.lifespan] = F(0)

====
